---- MODULE Spec2Model ----
(***************************************************************************)
(* A model of the pocketclaw-rs core runtime.                              *)
(*                                                                         *)
(* Part 1 (Spec): one turn of the agent loop, AgentLoop::process_message,  *)
(*   with the tool registry, the context builder, the session manager and  *)
(*   the outbound side of the bus it drives.                               *)
(* Part 2 (GatewaySpec): the gateway's authentication of the endpoints     *)
(*   that publish an InboundMessage.                                       *)
(*                                                                         *)
(* Strings built with format! are modelled as tuples of their pieces, so   *)
(* that the text of a message is compared piece by piece.                  *)
(***************************************************************************)
EXTENDS Integers, Sequences, FiniteSets, TLC

(***************************************************************************)
(* Program constants                                                       *)
(***************************************************************************)
MAX_ITERATIONS == 10
LLM_RETRIES == 3
HISTORY_TRIM_THRESHOLD == 30
MAX_HISTORY_MESSAGES == 20
SUMMARY_KEEP == 10
ALLOW_ALL_MARKER == "*"
SAFE_DEFAULT_TOOLS ==
    {"read_file", "list_dir", "web_fetch", "web_search",
     "sessions_list", "sessions_history", "channel_health", "datetime_now"}

(***************************************************************************)
(* Bounds of the model                                                     *)
(***************************************************************************)
\* the largest number of tool calls one model response carries
MaxCalls == 2
\* the number of messages the stored session "slack:b" holds before the turn
PrefillLen == 28

(***************************************************************************)
(* Messages  (core/src/types.rs)                                           *)
(***************************************************************************)
SenderFor(role) ==
    CASE role = "system" -> "system"
      [] role = "assistant" -> "assistant"
      [] role = "tool" -> "tool"
      [] OTHER -> "user"

Message_new(channel, session_key, role, content) ==
    [channel |-> channel, session_key |-> session_key,
     sender_id |-> SenderFor(role), role |-> role,
     content |-> content, metadata |-> {}]

with_sender(m, sender_id) == [m EXCEPT !.sender_id = sender_id]

metadata_insert(m, k, v) ==
    [m EXCEPT !.metadata = {p \in m.metadata : p[1] # k} \cup {<<k, v>>}]

(***************************************************************************)
(* Tool registry  (tools/src/registry.rs)                                  *)
(***************************************************************************)
\* the tools registered at start-up that the turn's calls can name
RegisteredTools == {"read_file", "exec_cmd"}

\* is_tool_allowed taking an empty list for "no restriction"
is_tool_allowed_open(tool_name, allowed_list) ==
    \/ allowed_list = {}
    \/ \E a \in allowed_list : a = tool_name \/ a = ALLOW_ALL_MARKER

is_tool_allowed(tool_name, allowed_list) ==
    \E a \in allowed_list : a = tool_name \/ a = ALLOW_ALL_MARKER

\* a variant that takes an empty list for "no restriction"
list_definitions_for_permissions_open(registered, allowed_list) ==
    IF allowed_list = {} THEN registered
    ELSE IF \E a \in allowed_list : a = ALLOW_ALL_MARKER THEN registered
    ELSE {t \in registered : \E a \in allowed_list : a = t}

list_definitions_for_permissions(registered, allowed_list) ==
    IF allowed_list = {} THEN {}
    ELSE IF \E a \in allowed_list : a = ALLOW_ALL_MARKER THEN registered
    ELSE {t \in registered : \E a \in allowed_list : a = t}

registry_get(name) == name \in RegisteredTools

NoMetrics == [execution_count |-> 0, success_count |-> 0, failure_count |-> 0]

record_metrics(mt, tool_name, success) ==
    LET e == IF tool_name \in DOMAIN mt THEN mt[tool_name] ELSE NoMetrics
        e2 == [execution_count |-> e.execution_count + 1,
               success_count |-> e.success_count + (IF success THEN 1 ELSE 0),
               failure_count |-> e.failure_count + (IF success THEN 0 ELSE 1)]
    IN  [n \in (DOMAIN mt) \cup {tool_name} |-> IF n = tool_name THEN e2 ELSE mt[n]]

(***************************************************************************)
(* Context builder  (agent/src/context.rs)                                 *)
(***************************************************************************)
\* Skill.permissions: None, or Some(SkillPermissions { tools, .. })
NoPermissions == [present |-> FALSE, tools |-> {}]
Permissions(tools) == [present |-> TRUE, tools |-> tools]

\* the skills found in the workspace, in list_skills order
InstalledSkills ==
    << [name |-> "shell", permissions |-> Permissions({"exec_cmd"}),
        always |-> TRUE, available |-> TRUE],
       [name |-> "legacy", permissions |-> NoPermissions,
        always |-> FALSE, available |-> TRUE] >>

\* the approved-skills files the model starts from
ApprovedChoices == { {}, {"shell"}, {"legacy"} }

RECURSIVE allowed_from(_, _, _)
allowed_from(skill_list, approved_set, acc) ==
    IF skill_list = << >> THEN acc
    ELSE LET skill == Head(skill_list) IN
         IF skill.name \in approved_set
         THEN IF ~skill.permissions.present THEN {ALLOW_ALL_MARKER}
              ELSE IF skill.permissions.tools = {} THEN {ALLOW_ALL_MARKER}
              ELSE allowed_from(Tail(skill_list), approved_set,
                                acc \cup skill.permissions.tools)
         ELSE allowed_from(Tail(skill_list), approved_set, acc)

\* a variant that counts the tools of every installed skill
get_allowed_tools_unapproved(skill_list, approved_set) ==
    LET allowed == allowed_from(skill_list, {skill_list[i].name : i \in 1..Len(skill_list)}, {}) IN
    IF allowed = {} THEN SAFE_DEFAULT_TOOLS ELSE allowed

get_allowed_tools(skill_list, approved_set) ==
    LET allowed == allowed_from(skill_list, approved_set, {}) IN
    IF allowed = {} THEN SAFE_DEFAULT_TOOLS ELSE allowed

SystemPrompt == <<"You are PocketClaw, an intelligent AI assistant.">>

NoSummary == <<"no_summary">>

SkillMessages(skill_list, approved_set) ==
    LET Wanted(s) == s.name \in approved_set /\ s.always /\ s.available
        idx == {i \in 1..Len(skill_list) : Wanted(skill_list[i])}
        F[i \in 0..Len(skill_list)] ==
            IF i = 0 THEN << >>
            ELSE IF i \in idx
                 THEN Append(F[i - 1],
                        Message_new("system", "global", "system",
                                    <<"Skill: ", skill_list[i].name>>))
                 ELSE F[i - 1]
    IN  F[Len(skill_list)]

build(history, summary, current_message, skill_list, approved_set) ==
    LET m1 == << Message_new("system", "global", "system", SystemPrompt) >>
        m2 == IF summary # NoSummary
              THEN Append(m1, Message_new("system", "global", "system",
                          <<"Previous conversation summary: ", summary>>))
              ELSE m1
        m3 == m2 \o SkillMessages(skill_list, approved_set)
        m4 == IF Len(history) > MAX_HISTORY_MESSAGES
              THEN Append(m3, Message_new("system", "global", "system",
                      <<"[", ToString(Len(history) - MAX_HISTORY_MESSAGES),
                        " older messages omitted">>))
                   \o SubSeq(history, Len(history) - MAX_HISTORY_MESSAGES + 1,
                             Len(history))
              ELSE m3 \o history
    IN  Append(m4, Message_new("cli", "current", "user", current_message))

(***************************************************************************)
(* Session manager  (agent/src/session.rs)                                 *)
(***************************************************************************)
SessionKeys == {"http:a", "slack:b"}

ChannelOf(session_key) == IF session_key = "slack:b" THEN "slack" ELSE "http"

Session_default == [history |-> << >>, summary |-> NoSummary]

get_history(store, session_key) == store[session_key].history

get_summary(store, session_key) == store[session_key].summary

\* add_message putting the message in front of the history
add_message_front(store, session_key, message) ==
    [store EXCEPT ![session_key].history = <<message>> \o @]

add_message(store, session_key, message) ==
    [store EXCEPT ![session_key].history = Append(@, message)]

set_summary(store, session_key, summary) ==
    [store EXCEPT ![session_key].summary = summary]

\* The three operations below are called by the agent loop; their bodies
\* are not part of session.rs and follow the specification's section 4.4.
NeverSummarized == -1
SummarizeIntervalSecs == 300

should_summarize(last, session_key, history_len, now_secs) ==
    /\ history_len >= HISTORY_TRIM_THRESHOLD
    /\ \/ last[session_key] = NeverSummarized
       \/ now_secs - last[session_key] >= SummarizeIntervalSecs

mark_summarized(last, session_key, now_secs) ==
    [last EXCEPT ![session_key] = now_secs]

auto_trim_history(store, session_key, keep) ==
    [store EXCEPT ![session_key].history =
        IF Len(@) > keep THEN SubSeq(@, Len(@) - keep + 1, Len(@)) ELSE @]

\* the history a stored session holds when the process starts
StoredHistory(session_key, n) ==
    [i \in 1..n |->
        with_sender(
            Message_new(ChannelOf(session_key), session_key,
                        IF i % 2 = 1 THEN "user" ELSE "assistant",
                        <<"earlier message ", ToString(i)>>),
            IF i % 2 = 1 THEN "U1" ELSE "assistant")]

InboundMessage(session_key) ==
    with_sender(
        Message_new(ChannelOf(session_key), session_key, "user", <<"hi">>),
        "http_client")

(***************************************************************************)
(* Provider responses  (providers/src/lib.rs)                              *)
(***************************************************************************)
ValidArguments == "{\"path\":\"NOTES.md\"}"
InvalidArguments == "{not json"

parses_as_json(arguments) == arguments = ValidArguments

\* the shapes of tool call the stub provider can emit
CallShapes ==
    { [name |-> "read_file", arguments |-> ValidArguments],
      [name |-> "exec_cmd", arguments |-> InvalidArguments],
      [name |-> "web_search", arguments |-> ValidArguments] }

CallId(i) == "call_" \o ToString(i)

ToolCall(i, shape) ==
    [id |-> CallId(i), name |-> shape.name, arguments |-> shape.arguments]

\* the tool-call lists a response can carry: 1..MaxCalls calls of distinct
\* shapes, the i-th with id CallId(i)
ToolCallLists ==
    UNION { { [i \in 1..n |-> ToolCall(i, f[i])] :
                f \in { g \in [1..n -> CallShapes] :
                          \A i, j \in 1..n : i # j => g[i] # g[j] } } :
            n \in 1..MaxCalls }

ToolCallText == <<"let me use a tool">>
FinalText == <<"done">>
SummaryText == <<"the user greeted the assistant">>
ProviderErrorText == <<"API error: 503 unavailable">>

(***************************************************************************)
(* State                                                                   *)
(***************************************************************************)
VARIABLES
    pc,               \* where process_message stands
    msg,              \* the inbound message of the turn
    sessions,         \* SessionManager: session_key -> Session
    last_summarized,  \* SessionManager: session_key -> time of last summary
    now,              \* the clock, in seconds
    approved_skills,  \* ContextBuilder: the approved skill names
    provider_script,  \* the tool calls the stub provider answers with
    provider_usage,   \* whether the provider reports token usage
    current_messages, \* the context sent to the LLM
    base_len,         \* length of the context ContextBuilder::build returned
    allowed_tools,    \* resolved at context-build time
    tool_defs,        \* names of the tool definitions offered to the LLM
    iteration,        \* loop counter of process_message
    attempt,          \* loop counter of call_llm_with_retry
    response_calls,   \* tool_calls of the response being handled
    pending,          \* the calls of that response not yet handled
    bus_events,       \* events published on the bus, in publish order
    audit,            \* audit records, in emission order
    metrics,          \* ToolRegistry metrics: tool name -> counters
    executed,         \* the calls for which Tool::execute was invoked
    llm_calls,        \* call_llm_with_retry invocations in the turn
    llm_attempts,     \* provider.chat invocations in the turn
    llm_failed,       \* which LLM call failed on every attempt, if one did
    session_reads,    \* session keys read through the SessionManager
    session_writes,   \* session keys written through the SessionManager
    gw_token,         \* gateway: AppState.auth_token
    gw_whatsapp_secret, \* gateway: AppState.whatsapp_app_secret
    gw_slack_secret,  \* gateway: AppState.slack_signing_secret
    gw_now,           \* gateway: the clock, in seconds
    gw_dedupe,        \* gateway: AppState.dedupe_cache
    gw_errors,        \* gateway: channel_stats, channel -> error_count
    gw_request,       \* gateway: the request handled last
    gw_status,        \* gateway: the HTTP status it was answered with
    gw_published,     \* gateway: the InboundMessages it published
    dd_log,           \* the dedupe_seen calls made, with their answers
    wh_log,           \* the webhook POSTs served, with what each published
    bus,              \* MessageBus: its two broadcast channels and counters
    bus_rx,           \* the receivers of the bus, by the task that holds them
    failover,         \* FailoverProvider and the chat call it is serving
    reliable,         \* ReliableProvider and the chat call it is serving
    adapter,          \* a channel adapter and the outbound send it is making
    cron,             \* CronService: its store of jobs and its clock
    tasks,            \* the running tasks: the locks each holds and the call it awaits
    policy,           \* the skills, the approvals and the registry of a turn, with the allowed tools resolved from them
    ip_check,         \* an IP address and what is_private_ip said of it
    sandbox,          \* a file system, a requested path and what validate_path returned for it
    cache_fill,       \* the dedupe cache of a gateway with its configured size, filled by webhook calls
    outflow,          \* a channel adapter's receive loop: its semaphore, its receiver and the sends in flight
    rolling,          \* a RollingMinuteCounter, the clock and the timestamps it was given
    api               \* the gateway's POST /api/message: the ids drawn and the answers given

agentVars ==
    <<pc, msg, sessions, last_summarized, now, approved_skills,
      provider_script, provider_usage, current_messages, base_len,
      allowed_tools, tool_defs, iteration, attempt, response_calls, pending,
      bus_events, audit, metrics, executed, llm_calls, llm_attempts,
      llm_failed, session_reads, session_writes>>

gatewayVars ==
    <<gw_token, gw_whatsapp_secret, gw_slack_secret, gw_now, gw_dedupe,
      gw_errors, gw_request, gw_status, gw_published>>

dedupeVars == <<dd_log, wh_log>>

busVars == <<bus, bus_rx>>

\* the components that are modelled on their own
providerVars == <<failover, reliable>>
adapterVars == <<adapter>>
cronVars == <<cron>>
lockVars == <<tasks>>
policyVars == <<policy>>
ipVars == <<ip_check>>
sandboxVars == <<sandbox>>
fillVars == <<cache_fill>>
outflowVars == <<outflow>>
rollingVars == <<rolling>>
apiVars == <<api>>
extraVars ==
    <<cronVars, lockVars, policyVars, ipVars, sandboxVars, fillVars, outflowVars, rollingVars, apiVars>>
componentVars == <<busVars, providerVars, adapterVars, extraVars>>

vars == <<agentVars, gatewayVars, dedupeVars, componentVars>>

\* what an action of the agent loop leaves alone, and what one of the
\* gateway leaves alone
nonAgentVars == <<gatewayVars, dedupeVars, componentVars>>
nonGatewayVars == <<agentVars, dedupeVars, componentVars>>
nonDedupeVars == <<agentVars, componentVars>>
nonBusVars ==
    <<agentVars, gatewayVars, dedupeVars, providerVars, adapterVars, extraVars>>
nonProviderVars ==
    <<agentVars, gatewayVars, dedupeVars, busVars, adapterVars, extraVars>>
nonAdapterVars ==
    <<agentVars, gatewayVars, dedupeVars, busVars, providerVars, extraVars>>
\* what the other components leave alone besides the bus
baseVars == <<agentVars, gatewayVars, dedupeVars, providerVars, adapterVars>>
nonCronVars ==
    <<baseVars, lockVars, policyVars, ipVars, sandboxVars, fillVars, outflowVars, rollingVars, apiVars>>
nonLockVars ==
    <<baseVars, busVars, cronVars, policyVars, ipVars, sandboxVars, fillVars, outflowVars, rollingVars, apiVars>>
nonPolicyVars ==
    <<baseVars, busVars, cronVars, lockVars, ipVars, sandboxVars, fillVars, outflowVars, rollingVars, apiVars>>
nonIpVars ==
    <<baseVars, busVars, cronVars, lockVars, policyVars, sandboxVars, fillVars, outflowVars, rollingVars, apiVars>>
nonSandboxVars ==
    <<baseVars, busVars, cronVars, lockVars, policyVars, ipVars, fillVars, outflowVars, rollingVars, apiVars>>
nonFillVars ==
    <<baseVars, busVars, cronVars, lockVars, policyVars, ipVars, sandboxVars, outflowVars, rollingVars, apiVars>>
nonOutflowVars ==
    <<baseVars, busVars, cronVars, lockVars, policyVars, ipVars, sandboxVars, fillVars, rollingVars, apiVars>>
nonRollingVars ==
    <<baseVars, busVars, cronVars, lockVars, policyVars, ipVars, sandboxVars, fillVars, outflowVars, apiVars>>
nonApiVars ==
    <<baseVars, busVars, cronVars, lockVars, policyVars, ipVars, sandboxVars, fillVars, outflowVars, rollingVars>>

NoMessage == Message_new("none", "none", "system", <<"none">>)

StartTime == 1000

\* the agent loop before a message arrives, whatever the sessions hold
AgentFresh ==
    /\ pc = "idle"
    /\ msg = NoMessage
    /\ last_summarized = [k \in SessionKeys |-> NeverSummarized]
    /\ now = StartTime
    /\ current_messages = << >>
    /\ base_len = 0
    /\ allowed_tools = {}
    /\ tool_defs = {}
    /\ iteration = 0
    /\ attempt = 0
    /\ response_calls = << >>
    /\ pending = << >>
    /\ bus_events = << >>
    /\ audit = << >>
    /\ metrics = << >>
    /\ executed = << >>
    /\ llm_calls = 0
    /\ llm_attempts = 0
    /\ llm_failed = "none"
    /\ session_reads = {}
    /\ session_writes = {}

\* one session holds PrefillLen stored messages, the other is new
AgentInit ==
    /\ AgentFresh
    /\ sessions =
         [k \in SessionKeys |->
            IF k = "slack:b"
            THEN [history |-> StoredHistory(k, PrefillLen), summary |-> NoSummary]
            ELSE Session_default]
    /\ approved_skills \in ApprovedChoices
    /\ provider_script \in ToolCallLists
    /\ provider_usage \in BOOLEAN

(***************************************************************************)
(* Bus and audit  (core/src/bus.rs, core/src/audit.rs)                     *)
(***************************************************************************)
OutboundMessage(m) == [type |-> "OutboundMessage", msg |-> m]

publish(events, event) == Append(events, event)

log_audit_internal(log, event_type, session_key, tool, success, iter) ==
    Append(log, [event_type |-> event_type, session_key |-> session_key,
                 tool |-> tool, success |-> success, iteration |-> iter])

(***************************************************************************)
(* Agent loop  (agent/src/agent_loop.rs)                                   *)
(***************************************************************************)
ProviderErrorMessage(e) ==
    <<"I encountered an error communicating with the AI provider: ", e>>

MaxIterationsMessage ==
    <<"I reached the maximum number of processing steps (",
      ToString(MAX_ITERATIONS),
      "). My last response may be incomplete. Please try rephrasing your request.">>

\* send_error that drops the message instead of publishing it
send_error_unpublished(events, session_key, text) == events

send_error(events, session_key, text) ==
    publish(events,
            OutboundMessage(Message_new("agent", session_key, "assistant", text)))

\* the loop bound taken inclusively
loop_continues_inclusive(iter) == iter <= MAX_ITERATIONS

\* while iteration < MAX_ITERATIONS
loop_continues(iter) == iter < MAX_ITERATIONS

\* call_llm_with_retry retrying once more than LLM_RETRIES allows
retry_again_inclusive(att) == att < LLM_RETRIES

\* call_llm_with_retry: after a failed attempt, whether another one follows
retry_again(att) == att < LLM_RETRIES - 1

\* the list the "Permission guard" checks the call against: a new empty Vec
permission_guard_list == {}

BlockedMessage(session_key, tool_call) ==
    Message_new("tool", session_key, "tool",
        <<"Error: Tool '", tool_call.name,
          "' is not authorized by any active skill.">>)

\* whether the loop reaches tool.execute(args) for the call
reaches_execute(tool_call) ==
    /\ registry_get(tool_call.name)
    /\ is_tool_allowed(tool_call.name, permission_guard_list)
    /\ parses_as_json(tool_call.arguments)

ToolOutput(name) == <<"output of ", name>>

\* the result string of a call that passed the default-deny check;
\* execute_ok is the outcome of tool.execute when it is invoked
tool_result(tool_call, execute_ok) ==
    IF registry_get(tool_call.name)
    THEN IF ~is_tool_allowed(tool_call.name, permission_guard_list)
         THEN <<"Permission denied: tool '", tool_call.name, "' is not allowed">>
         ELSE IF parses_as_json(tool_call.arguments)
              THEN IF execute_ok THEN ToolOutput(tool_call.name)
                   ELSE <<"Error executing tool: ", "tool failed">>
              ELSE <<"Error parsing arguments: ", "expected value">>
    ELSE <<"Tool not found: ", tool_call.name>>

starts_with_Error(result) ==
    result[1] \in {"Error executing tool: ", "Error parsing arguments: ",
                   "Error: Tool '"}
starts_with_Permission_denied(result) == result[1] = "Permission denied: tool '"
starts_with_Tool_not_found(result) == result[1] = "Tool not found: "

\* Message::new called with channel and session key exchanged
ToolResultMessage_swapped(session_key, tool_call, result) ==
    metadata_insert(Message_new(session_key, "agent", "tool", result),
                    "tool_call_id", tool_call.id)

ToolResultMessage(session_key, tool_call, result) ==
    metadata_insert(Message_new("agent", session_key, "tool", result),
                    "tool_call_id", tool_call.id)

\* the calls taken last to first
iteration_order_reversed(tool_calls) ==
    [i \in 1..Len(tool_calls) |-> tool_calls[Len(tool_calls) + 1 - i]]

\* for tool_call in response.tool_calls: the order the calls are taken in
iteration_order(tool_calls) == tool_calls

\* process_message up to the loop: append the inbound message to the
\* session, build the context, resolve the allowed tools
ReceiveInbound(session_key) ==
    /\ pc = "idle"
    /\ LET m == InboundMessage(session_key)
           store == add_message(sessions, m.session_key, m)
           history == get_history(store, m.session_key)
           summary == get_summary(store, m.session_key)
           history_slice ==
               IF Len(history) > 0 THEN SubSeq(history, 1, Len(history) - 1)
               ELSE << >>
           messages == build(history_slice, summary, m.content,
                             InstalledSkills, approved_skills)
           allowed == get_allowed_tools(InstalledSkills, approved_skills)
       IN  /\ msg' = m
           /\ sessions' = store
           /\ session_writes' = session_writes \cup {m.session_key}
           /\ session_reads' = session_reads \cup {m.session_key}
           /\ current_messages' = messages
           /\ base_len' = Len(messages)
           /\ allowed_tools' = allowed
           /\ tool_defs' = list_definitions_for_permissions(RegisteredTools, allowed)
    /\ iteration' = 0
    /\ pc' = "loop"
    /\ UNCHANGED <<last_summarized, now, approved_skills, provider_script,
                   provider_usage, attempt, response_calls, pending, bus_events,
                   audit, metrics, executed, llm_calls, llm_attempts,
                   llm_failed>>
    /\ UNCHANGED nonAgentVars

\* while iteration < MAX_ITERATIONS { iteration += 1; call_llm_with_retry ...
LoopIterate ==
    /\ pc = "loop"
    /\ loop_continues(iteration)
    /\ iteration' = iteration + 1
    /\ attempt' = 0
    /\ llm_calls' = llm_calls + 1
    /\ pc' = "llm"
    /\ UNCHANGED <<msg, sessions, last_summarized, now, approved_skills,
                   provider_script, provider_usage, current_messages, base_len,
                   allowed_tools, tool_defs, response_calls, pending,
                   bus_events, audit, metrics, executed, llm_attempts,
                   llm_failed, session_reads, session_writes>>
    /\ UNCHANGED nonAgentVars

\* the loop is exhausted: notify the user
MaxIterationsReached ==
    /\ pc = "loop"
    /\ ~loop_continues(iteration)
    /\ bus_events' = send_error(bus_events, msg.session_key, MaxIterationsMessage)
    /\ pc' = "done"
    /\ UNCHANGED <<msg, sessions, last_summarized, now, approved_skills,
                   provider_script, provider_usage, current_messages, base_len,
                   allowed_tools, tool_defs, iteration, attempt, response_calls,
                   pending, audit, metrics, executed, llm_calls, llm_attempts,
                   llm_failed, session_reads, session_writes>>
    /\ UNCHANGED nonAgentVars

\* provider.chat fails and call_llm_with_retry sleeps and tries again
ChatFailsRetry ==
    /\ pc \in {"llm", "summarize_llm"}
    /\ retry_again(attempt)
    /\ llm_attempts' = llm_attempts + 1
    /\ attempt' = attempt + 1
    /\ UNCHANGED <<pc, msg, sessions, last_summarized, now, approved_skills,
                   provider_script, provider_usage, current_messages, base_len,
                   allowed_tools, tool_defs, iteration, response_calls, pending,
                   bus_events, audit, metrics, executed, llm_calls,
                   llm_failed, session_reads, session_writes>>
    /\ UNCHANGED nonAgentVars

\* the last attempt of a loop call fails: error message, end of the turn
ChatFailsLast ==
    /\ pc = "llm"
    /\ ~retry_again(attempt)
    /\ llm_attempts' = llm_attempts + 1
    /\ llm_failed' = "loop"
    /\ bus_events' = send_error(bus_events, msg.session_key,
                                ProviderErrorMessage(ProviderErrorText))
    /\ pc' = "done"
    /\ UNCHANGED <<msg, sessions, last_summarized, now, approved_skills,
                   provider_script, provider_usage, current_messages, base_len,
                   allowed_tools, tool_defs, iteration, attempt, response_calls,
                   pending, audit, metrics, executed, llm_calls,
                   session_reads, session_writes>>
    /\ UNCHANGED nonAgentVars

\* what follows a successful loop call whatever it carries: the usage audit
\* and the assistant message appended to the context
AfterResponse(content) ==
    /\ llm_attempts' = llm_attempts + 1
    /\ current_messages' =
         Append(current_messages,
                Message_new("agent", msg.session_key, "assistant", content))

UsageAudit(log) ==
    IF provider_usage
    THEN log_audit_internal(log, "llm_completion", msg.session_key, "", FALSE,
                            iteration)
    ELSE log

\* the response carries tool calls
ChatReturnsToolCalls ==
    /\ pc = "llm"
    /\ AfterResponse(ToolCallText)
    /\ audit' = UsageAudit(audit)
    /\ response_calls' = provider_script
    /\ pending' = iteration_order(provider_script)
    /\ pc' = "tools"
    /\ UNCHANGED <<msg, sessions, last_summarized, now, approved_skills,
                   provider_script, provider_usage, base_len, allowed_tools,
                   tool_defs, iteration, attempt, bus_events, metrics, executed,
                   llm_calls, llm_failed, session_reads, session_writes>>
    /\ UNCHANGED nonAgentVars

\* one tool call of the response: default deny, then the registry lookup,
\* the permission guard, the argument parse and the execution
HandleToolCall ==
    /\ pc = "tools"
    /\ pending # << >>
    /\ LET tool_call == Head(pending)
           rest == Tail(pending)
       IN  /\ pending' = rest
           /\ pc' = IF rest = << >> THEN "loop" ELSE "tools"
           /\ IF ~is_tool_allowed(tool_call.name, allowed_tools)
              THEN /\ audit' = log_audit_internal(audit, "security_violation",
                                   msg.session_key, tool_call.name, FALSE,
                                   iteration)
                   /\ current_messages' =
                        Append(current_messages,
                               BlockedMessage(msg.session_key, tool_call))
                   /\ UNCHANGED <<metrics, executed>>
              ELSE \E execute_ok \in BOOLEAN :
                   LET result == tool_result(tool_call, execute_ok) IN
                   /\ executed' = IF reaches_execute(tool_call)
                                  THEN Append(executed, tool_call)
                                  ELSE executed
                   /\ metrics' = record_metrics(metrics, tool_call.name,
                                    /\ ~starts_with_Error(result)
                                    /\ ~starts_with_Permission_denied(result)
                                    /\ ~starts_with_Tool_not_found(result))
                   /\ audit' = log_audit_internal(audit, "tool_execution",
                                   msg.session_key, tool_call.name,
                                   ~starts_with_Error(result), iteration)
                   /\ current_messages' =
                        Append(current_messages,
                               ToolResultMessage(msg.session_key, tool_call,
                                                 result))
    /\ UNCHANGED <<msg, sessions, last_summarized, now, approved_skills,
                   provider_script, provider_usage, base_len, allowed_tools,
                   tool_defs, iteration, attempt, response_calls, bus_events,
                   llm_calls, llm_attempts, llm_failed, session_reads,
                   session_writes>>
    /\ UNCHANGED nonAgentVars

\* the response carries no tool call: the final response is stored and
\* published, then maybe_summarize_and_trim decides on a summary
ChatReturnsFinal ==
    /\ pc = "llm"
    /\ AfterResponse(FinalText)
    /\ audit' = UsageAudit(audit)
    /\ LET response_msg ==
               Message_new("agent", msg.session_key, "assistant", FinalText)
           store == add_message(sessions, msg.session_key, response_msg)
           history == get_history(store, msg.session_key)
       IN  /\ sessions' = store
           /\ bus_events' = publish(bus_events, OutboundMessage(response_msg))
           /\ IF should_summarize(last_summarized, msg.session_key,
                                  Len(history), now)
              THEN /\ pc' = "summarize_llm"
                   /\ attempt' = 0
                   /\ llm_calls' = llm_calls + 1
              ELSE /\ pc' = "done"
                   /\ UNCHANGED <<attempt, llm_calls>>
    /\ session_writes' = session_writes \cup {msg.session_key}
    /\ session_reads' = session_reads \cup {msg.session_key}
    /\ UNCHANGED <<msg, last_summarized, now, approved_skills, provider_script,
                   provider_usage, base_len, allowed_tools, tool_defs,
                   iteration, response_calls, pending, metrics, executed,
                   llm_failed>>
    /\ UNCHANGED nonAgentVars

\* a variant of the step after set_summary that trims before it marks
after_summary_set_trimming(store, marks, session_key, now_s) ==
    [pc |-> "summary_marked",
     sessions |-> auto_trim_history(store, session_key, SUMMARY_KEEP),
     last_summarized |-> marks]

\* the step after set_summary: mark_summarized records the present instant
after_summary_set(store, marks, session_key, now_s) ==
    [pc |-> "summary_marked",
     sessions |-> store,
     last_summarized |-> mark_summarized(marks, session_key, now_s)]

\* the summary call succeeds: set_summary stores the summary
SummaryChatReturns ==
    /\ pc = "summarize_llm"
    /\ llm_attempts' = llm_attempts + 1
    /\ sessions' = set_summary(sessions, msg.session_key, SummaryText)
    /\ session_writes' = session_writes \cup {msg.session_key}
    /\ pc' = "summary_set"
    /\ UNCHANGED <<msg, last_summarized, now, approved_skills, provider_script,
                   provider_usage, current_messages, base_len, allowed_tools,
                   tool_defs, iteration, attempt, response_calls, pending,
                   bus_events, audit, metrics, executed, llm_calls, llm_failed,
                   session_reads>>
    /\ UNCHANGED nonAgentVars

\* set_summary returned: mark_summarized
SummaryMarked ==
    /\ pc = "summary_set"
    /\ LET after == after_summary_set(sessions, last_summarized,
                                      msg.session_key, now)
       IN  /\ pc' = after.pc
           /\ sessions' = after.sessions
           /\ last_summarized' = after.last_summarized
    /\ UNCHANGED <<msg, now, approved_skills, provider_script,
                   provider_usage, current_messages, base_len, allowed_tools,
                   tool_defs, iteration, attempt, response_calls, pending,
                   bus_events, audit, metrics, executed, llm_calls,
                   llm_attempts, llm_failed, session_reads, session_writes>>
    /\ UNCHANGED nonAgentVars

\* the session is marked: auto_trim_history keeps the last ten messages
SummaryTrimmed ==
    /\ pc = "summary_marked"
    /\ sessions' = auto_trim_history(sessions, msg.session_key, SUMMARY_KEEP)
    /\ session_writes' = session_writes \cup {msg.session_key}
    /\ pc' = "done"
    /\ UNCHANGED <<msg, last_summarized, now, approved_skills, provider_script,
                   provider_usage, current_messages, base_len, allowed_tools,
                   tool_defs, iteration, attempt, response_calls, pending,
                   bus_events, audit, metrics, executed, llm_calls,
                   llm_attempts, llm_failed, session_reads>>
    /\ UNCHANGED nonAgentVars

\* the last attempt of the summary call fails: logged, nothing else
SummaryChatFailsLast ==
    /\ pc = "summarize_llm"
    /\ ~retry_again(attempt)
    /\ llm_attempts' = llm_attempts + 1
    /\ llm_failed' = "summary"
    /\ pc' = "done"
    /\ UNCHANGED <<msg, sessions, last_summarized, now, approved_skills,
                   provider_script, provider_usage, current_messages, base_len,
                   allowed_tools, tool_defs, iteration, attempt, response_calls,
                   pending, bus_events, audit, metrics, executed, llm_calls,
                   session_reads, session_writes>>
    /\ UNCHANGED nonAgentVars

(***************************************************************************)
(* Gateway  (server/src/gateway.rs)                                        *)
(***************************************************************************)
\* Option<String>
None == [some |-> FALSE, value |-> ""]
Some(v) == [some |-> TRUE, value |-> v]

\* bound of the gateway model: the error counters stop at MaxErrors
MaxErrors == 1

SLACK_MAX_SKEW_SECS == 300
DEDUPE_TTL_SECS == 600
SLACK_FALLBACK_TTL_SECS == 120
DEDUPE_MAX_ENTRIES == 2048
DEDUPE_MIN_CAP == 128

HTTP_OK == 200
HTTP_BAD_REQUEST == 400
HTTP_UNAUTHORIZED == 401

\* A header value is the pair of a prefix and what follows it; a header
\* that is absent reads as the empty string.
AbsentHeader == <<"", "">>

strip_prefix(header, prefix) ==
    IF header[1] = prefix /\ prefix # "" THEN Some(header[2]) ELSE None

unwrap_or(opt, default) == IF opt.some THEN opt.value ELSE default

check_auth(auth_token, authorization) ==
    IF ~auth_token.some THEN TRUE
    ELSE LET provided_token ==
                 unwrap_or(strip_prefix(authorization, "Bearer "), "")
         IN  provided_token = auth_token.value

\* HMAC-SHA256 as a hex string: it names the key and the data it was
\* computed from, and the case of its hex digits
hmac_hex(key, data) == [key |-> key, data |-> data, hex |-> "lower"]
to_ascii_lowercase(digest) == [digest EXCEPT !.hex = "lower"]
NoDigest == [key |-> "", data |-> <<"">>, hex |-> "lower"]

verify_whatsapp_signature(signature, body, secret) ==
    IF signature.prefix # "sha256=" THEN FALSE
    ELSE hmac_hex(secret, <<body>>) = to_ascii_lowercase(signature.digest)

\* a variant whose skew test is one-sided (no absolute value)
verify_slack_signature_one_sided(signature, ts, body, signing_secret, now_secs) ==
    IF ts = 0 \/ signature.prefix = "" THEN FALSE
    ELSE IF now_secs - ts > SLACK_MAX_SKEW_SECS
    THEN FALSE
    ELSE /\ signature.prefix = "v0="
         /\ signature.digest = hmac_hex(signing_secret, <<"v0:", ToString(ts), ":", body>>)

verify_slack_signature(signature, ts, body, signing_secret, now_secs) ==
    IF ts = 0 \/ signature.prefix = "" THEN FALSE
    ELSE IF (IF now_secs - ts >= 0 THEN now_secs - ts ELSE ts - now_secs)
              > SLACK_MAX_SKEW_SECS
    THEN FALSE
    ELSE /\ signature.prefix = "v0="
         /\ signature.digest = hmac_hex(signing_secret, <<"v0:", ToString(ts), ":", body>>)

\* DedupeCache: entries is a set of <<key, ts>> holding one pair per key,
\* order is the FIFO list of <<key, ts>>
DedupeCache_default == [entries |-> {}, order |-> << >>]

entries_get(entries, key) == {e \in entries : e[1] = key}
entries_insert(entries, key, ts) ==
    {e \in entries : e[1] # key} \cup {<<key, ts>>}
entries_len(entries) == Cardinality({e[1] : e \in entries})

RECURSIVE evict_expired(_, _, _)
evict_expired(cache, now_secs, ttl_secs) ==
    IF cache.order = << >> THEN cache
    ELSE LET old == Head(cache.order) IN
         IF now_secs - old[2] > ttl_secs
         THEN evict_expired(
                  [entries |-> cache.entries \ {old},
                   order |-> Tail(cache.order)],
                  now_secs, ttl_secs)
         ELSE cache

\* a variant that discards the newest entries
RECURSIVE evict_overflow_newest(_, _)
evict_overflow_newest(cache, max_entries) ==
    IF entries_len(cache.entries) > max_entries /\ cache.order # << >>
    THEN evict_overflow_newest(
             [entries |-> cache.entries \ {cache.order[Len(cache.order)]},
              order |-> SubSeq(cache.order, 1, Len(cache.order) - 1)],
             max_entries)
    ELSE cache

RECURSIVE evict_overflow(_, _)
evict_overflow(cache, max_entries) ==
    IF entries_len(cache.entries) > max_entries /\ cache.order # << >>
    THEN evict_overflow(
             [entries |-> cache.entries \ {Head(cache.order)},
              order |-> Tail(cache.order)],
             max_entries)
    ELSE cache

max_of(a, b) == IF a >= b THEN a ELSE b

\* dedupe_seen: the answer and the cache it leaves
dedupe_seen(cache, key, ttl_secs, now_secs, dedupe_max_entries) ==
    LET swept == evict_expired(cache, now_secs, ttl_secs)
        hit == \E e \in entries_get(swept.entries, key) :
                   now_secs - e[2] <= ttl_secs
        added == [entries |-> entries_insert(swept.entries, key, now_secs),
                  order |-> Append(swept.order, <<key, now_secs>>)]
    IN  IF hit THEN [seen |-> TRUE, cache |-> swept]
        ELSE [seen |-> FALSE,
              cache |-> evict_overflow(added,
                            max_of(dedupe_max_entries, DEDUPE_MIN_CAP))]

\* the requests of the model ------------------------------------------
BearerHeaders ==
    {AbsentHeader, <<"Bearer ", "t">>, <<"Bearer ", "x">>}

NoSignature == [prefix |-> "", digest |-> NoDigest]

WhatsappSignatures(body) ==
    { NoSignature,
      [prefix |-> "sha256=", digest |-> hmac_hex("s", <<body>>)],
      [prefix |-> "sha256=",
       digest |-> [hmac_hex("s", <<body>>) EXCEPT !.hex = "upper"]],
      [prefix |-> "sha256=", digest |-> hmac_hex("guess", <<body>>)] }

SlackSignatures(ts, body) ==
    { NoSignature,
      [prefix |-> "v0=", digest |-> hmac_hex("s", <<"v0:", ToString(ts), ":", body>>)],
      [prefix |-> "v0=", digest |-> hmac_hex("guess", <<"v0:", ToString(ts), ":", body>>)] }

Request(endpoint, authorization, signature, ts, body, message_id) ==
    [endpoint |-> endpoint, authorization |-> authorization,
     signature |-> signature, ts |-> ts, body |-> body,
     message_id |-> message_id]

ApiEndpoints ==
    {"send_message", "send_session_message", "whatsapp_inbound",
     "google_chat_inbound", "zalo_inbound", "teams_inbound"}

\* only the WhatsApp requests carry a message id
ApiRequests ==
    { Request(ep, a, NoSignature, 0, "message", "") :
        ep \in ApiEndpoints, a \in BearerHeaders }
    \cup
    { Request("whatsapp_inbound", a, NoSignature, 0, "message", "m1") :
        a \in BearerHeaders }

WhatsappBodies == {"message", "no_messages", "invalid_json"}

WhatsappWebhookRequests ==
    UNION { { Request("whatsapp_webhook", a, sg, 0, b, "m1") :
                a \in {AbsentHeader, <<"Bearer ", "t">>},
                sg \in WhatsappSignatures(b) } :
            b \in WhatsappBodies }

SlackBodies == {"event_message", "url_verification", "fallback", "invalid_json"}

SlackTimestamps(now_secs) ==
    {0, now_secs, now_secs - SLACK_MAX_SKEW_SECS,
     now_secs - SLACK_MAX_SKEW_SECS - 1,
     now_secs + SLACK_MAX_SKEW_SECS + 1}

\* every body with a fresh timestamp, the event body with every timestamp
SlackInboundRequests(now_secs) ==
    UNION { { Request("slack_inbound", a, sg, ts, b, "e1") :
                a \in {AbsentHeader, <<"Bearer ", "t">>},
                sg \in SlackSignatures(ts, b) } :
            <<ts, b>> \in ({now_secs} \X SlackBodies)
                          \cup (SlackTimestamps(now_secs) \X {"event_message"}) }


\* the handlers -------------------------------------------------------
record_channel_error(errors, channel) ==
    [errors EXCEPT ![channel] = @ + 1]

InboundFrom(channel, session_key, sender, text, metadata) ==
    [with_sender(Message_new(channel, session_key, "user", text), sender)
        EXCEPT !.metadata = metadata]

IdMetadata(name, message_id) ==
    IF message_id = "" THEN {} ELSE {<<name, message_id>>}

\* the outcome of a handler: status, published messages, cache, errors
Outcome(status, published, cache, errors) ==
    [status |-> status, published |-> published, cache |-> cache,
     errors |-> errors]

send_message(req) ==
    IF ~check_auth(gw_token, req.authorization)
    THEN Outcome(HTTP_UNAUTHORIZED, << >>, gw_dedupe, gw_errors)
    ELSE Outcome(HTTP_OK,
             << InboundFrom("http", "http:a", "http_client", <<"hello">>, {}) >>,
             gw_dedupe, gw_errors)

send_session_message(req) ==
    IF ~check_auth(gw_token, req.authorization)
    THEN Outcome(HTTP_UNAUTHORIZED, << >>, gw_dedupe, gw_errors)
    ELSE Outcome(HTTP_OK,
             << InboundFrom("webchat", "webchat:w1", "api_session_send",
                            <<"hello">>, {}) >>,
             gw_dedupe, gw_errors)

\* whatsapp_inbound, google_chat_inbound, zalo_inbound and teams_inbound
\* share one shape: bearer check, dedupe on the message id, publish
channel_inbound(req, channel, id_name, sender) ==
    IF ~check_auth(gw_token, req.authorization)
    THEN Outcome(HTTP_UNAUTHORIZED, << >>, gw_dedupe, gw_errors)
    ELSE LET probe == IF req.message_id # ""
                      THEN dedupe_seen(gw_dedupe,
                               <<channel, ":", req.message_id>>,
                               DEDUPE_TTL_SECS, gw_now, DEDUPE_MAX_ENTRIES)
                      ELSE [seen |-> FALSE, cache |-> gw_dedupe]
         IN  IF probe.seen
             THEN Outcome(HTTP_OK, << >>, probe.cache, gw_errors)
             ELSE Outcome(HTTP_OK,
                      << InboundFrom(channel, <<channel, ":", "u1">>, sender,
                                     <<"hello">>,
                                     IdMetadata(id_name, req.message_id)) >>,
                      probe.cache, gw_errors)

whatsapp_webhook(req) ==
    IF /\ gw_whatsapp_secret.some
       /\ gw_whatsapp_secret.value # ""
       /\ ~verify_whatsapp_signature(req.signature, req.body,
                                     gw_whatsapp_secret.value)
    THEN Outcome(HTTP_UNAUTHORIZED, << >>, gw_dedupe,
                 record_channel_error(gw_errors, "whatsapp"))
    ELSE IF req.body = "invalid_json"
    THEN Outcome(HTTP_BAD_REQUEST, << >>, gw_dedupe,
                 record_channel_error(gw_errors, "whatsapp"))
    ELSE IF req.body = "no_messages"
    THEN Outcome(HTTP_OK, << >>, gw_dedupe, gw_errors)
    ELSE LET probe == dedupe_seen(gw_dedupe, <<"whatsapp", ":", req.message_id>>,
                                  DEDUPE_TTL_SECS, gw_now, DEDUPE_MAX_ENTRIES)
         IN  IF probe.seen
             THEN Outcome(HTTP_OK, << >>, probe.cache, gw_errors)
             ELSE Outcome(HTTP_OK,
                      << InboundFrom("whatsapp", <<"whatsapp", ":", "u1">>, "u1",
                             <<"hello">>,
                             IdMetadata("whatsapp_message_id", req.message_id)) >>,
                      probe.cache, gw_errors)

slack_inbound(req) ==
    IF /\ gw_slack_secret.some
       /\ gw_slack_secret.value # ""
       /\ ~verify_slack_signature(req.signature, req.ts, req.body,
                                  gw_slack_secret.value, gw_now)
    THEN Outcome(HTTP_UNAUTHORIZED, << >>, gw_dedupe,
                 record_channel_error(gw_errors, "slack"))
    ELSE IF ~gw_slack_secret.some /\ ~check_auth(gw_token, req.authorization)
    THEN Outcome(HTTP_UNAUTHORIZED, << >>, gw_dedupe, gw_errors)
    ELSE IF req.body = "invalid_json"
    THEN Outcome(HTTP_BAD_REQUEST, << >>, gw_dedupe,
                 record_channel_error(gw_errors, "slack"))
    ELSE IF req.body = "url_verification"
    THEN Outcome(HTTP_OK, << >>, gw_dedupe, gw_errors)
    ELSE IF req.body = "event_message"
    THEN \* an event_callback envelope with event_id, channel C1 and ts 1.0,
         \* without client_msg_id: two probes, the event id and the ts key
         LET first == dedupe_seen(gw_dedupe, <<"slack:event:", req.message_id>>,
                                  DEDUPE_TTL_SECS, gw_now, DEDUPE_MAX_ENTRIES)
             second == dedupe_seen(first.cache, <<"slack:", "C1", ":", "1.0">>,
                                   DEDUPE_TTL_SECS, gw_now, DEDUPE_MAX_ENTRIES)
         IN  IF first.seen
             THEN Outcome(HTTP_OK, << >>, first.cache, gw_errors)
             ELSE IF second.seen
             THEN Outcome(HTTP_OK, << >>, second.cache, gw_errors)
             ELSE Outcome(HTTP_OK,
                      << InboundFrom("slack", <<"slack:", "C1", ":", "1.0">>,
                             "slack_user", <<"hello">>,
                             {<<"slack_channel", "C1">>, <<"slack_ts", "1.0">>,
                              <<"slack_event_id", req.message_id>>}) >>,
                      second.cache, gw_errors)
    ELSE \* the fallback body {channel, text}
         LET probe == dedupe_seen(gw_dedupe,
                          <<"slack:fallback:", "C1", ":", "", ":", "hello">>,
                          SLACK_FALLBACK_TTL_SECS, gw_now, DEDUPE_MAX_ENTRIES)
         IN  IF probe.seen
             THEN Outcome(HTTP_OK, << >>, probe.cache, gw_errors)
             ELSE Outcome(HTTP_OK,
                      << InboundFrom("slack", <<"slack:", "C1">>, "slack_user",
                             <<"hello">>, {<<"slack_channel", "C1">>}) >>,
                      probe.cache, gw_errors)

NoRequest == Request("none", AbsentHeader, NoSignature, 0, "", "")

\* the gateway state a handler leaves when it answers
Answer(req, out) ==
    /\ \A c \in DOMAIN out.errors : out.errors[c] <= MaxErrors
    /\ gw_request' = req
    /\ gw_status' = out.status
    /\ gw_published' = out.published
    /\ gw_dedupe' = out.cache
    /\ gw_errors' = out.errors
    /\ UNCHANGED <<gw_token, gw_whatsapp_secret, gw_slack_secret, gw_now>>

Respond(req, out) ==
    /\ Answer(req, out)
    /\ UNCHANGED nonGatewayVars

SendMessage(req) ==
    /\ req.endpoint = "send_message"
    /\ Respond(req, send_message(req))

SendSessionMessage(req) ==
    /\ req.endpoint = "send_session_message"
    /\ Respond(req, send_session_message(req))

WhatsappInbound(req) ==
    /\ req.endpoint = "whatsapp_inbound"
    /\ Respond(req, channel_inbound(req, "whatsapp", "whatsapp_message_id", "u1"))

GoogleChatInbound(req) ==
    /\ req.endpoint = "google_chat_inbound"
    /\ Respond(req, channel_inbound(req, "google_chat", "google_chat_message_id",
                                    "google_chat_user"))

ZaloInbound(req) ==
    /\ req.endpoint = "zalo_inbound"
    /\ Respond(req, channel_inbound(req, "zalo", "zalo_message_id", "u1"))

TeamsInbound(req) ==
    /\ req.endpoint = "teams_inbound"
    /\ Respond(req, channel_inbound(req, "teams", "teams_message_id", "teams_user"))

WhatsappWebhook(req) ==
    /\ req.endpoint = "whatsapp_webhook"
    /\ Respond(req, whatsapp_webhook(req))

SlackInbound(req) ==
    /\ req.endpoint = "slack_inbound"
    /\ Respond(req, slack_inbound(req))

GatewayConfigured ==
    /\ gw_now = StartTime
    /\ gw_dedupe = DedupeCache_default
    /\ gw_errors = [c \in {"whatsapp", "slack"} |-> 0]
    /\ gw_request = NoRequest
    /\ gw_status = 0
    /\ gw_published = << >>

\* the gateway as the agent-loop specification holds it: not serving
GatewayIdle ==
    /\ gw_token = None
    /\ gw_whatsapp_secret = None
    /\ gw_slack_secret = None
    /\ GatewayConfigured

\* the configurations the gateway is started with: the token is set or
\* not; the two webhook secrets are both unset, both empty or both set
GatewayInit ==
    /\ gw_token \in {None, Some("t")}
    /\ \E secret \in {None, Some(""), Some("s")} :
          /\ gw_whatsapp_secret = secret
          /\ gw_slack_secret = secret
    /\ GatewayConfigured

GatewayNext ==
    \/ \E req \in ApiRequests : SendMessage(req)
    \/ \E req \in ApiRequests : SendSessionMessage(req)
    \/ \E req \in ApiRequests : WhatsappInbound(req)
    \/ \E req \in ApiRequests : GoogleChatInbound(req)
    \/ \E req \in ApiRequests : ZaloInbound(req)
    \/ \E req \in ApiRequests : TeamsInbound(req)
    \/ \E req \in WhatsappWebhookRequests : WhatsappWebhook(req)
    \/ \E req \in SlackInboundRequests(gw_now) : SlackInbound(req)

(***************************************************************************)
(* The dedupe cache over time  (server/src/gateway.rs)                     *)
(***************************************************************************)
\* bound: the calls and POSTs of one behaviour
MaxDedupeOps == 3

\* the instants, in seconds after the start, the clock is read at: half a
\* minute on, just past the fallback TTL, just past the dedupe TTL
ClockInstants ==
    {0, 30, SLACK_FALLBACK_TTL_SECS + 1, DEDUPE_TTL_SECS + 1}

\* the call sites of dedupe_seen the other inbound handlers hold: the key
\* they probe and the TTL they pass
DedupeSites ==
    { [key |-> <<"google_chat", ":", "m1">>, ttl |-> DEDUPE_TTL_SECS],
      [key |-> <<"zalo", ":", "m1">>, ttl |-> DEDUPE_TTL_SECS],
      [key |-> <<"slack:fallback:", "C2", ":", "", ":", "hi">>,
       ttl |-> SLACK_FALLBACK_TTL_SECS] }

\* the webhook POSTs delivered: a WhatsApp message with id m1, and a Slack
\* fallback body
WebhookPosts(now_secs) ==
    { Request("whatsapp_webhook", AbsentHeader, NoSignature, 0, "message", "m1"),
      Request("slack_inbound", AbsentHeader, NoSignature, now_secs, "fallback",
              "e1") }

DedupeOps == Len(dd_log) + Len(wh_log)

\* one call of dedupe_seen
DedupeCall(site) ==
    /\ DedupeOps < MaxDedupeOps
    /\ LET probe == dedupe_seen(gw_dedupe, site.key, site.ttl, gw_now,
                                DEDUPE_MAX_ENTRIES)
       IN  /\ gw_dedupe' = probe.cache
           /\ dd_log' = Append(dd_log, [key |-> site.key, ttl |-> site.ttl,
                                        at |-> gw_now, seen |-> probe.seen])
    /\ UNCHANGED <<gw_token, gw_whatsapp_secret, gw_slack_secret, gw_now,
                   gw_errors, gw_request, gw_status, gw_published, wh_log>>
    /\ UNCHANGED nonDedupeVars

\* one webhook POST served
WebhookPost(req) ==
    /\ DedupeOps < MaxDedupeOps
    /\ LET out == IF req.endpoint = "whatsapp_webhook"
                  THEN whatsapp_webhook(req) ELSE slack_inbound(req)
       IN  /\ Answer(req, out)
           /\ wh_log' = Append(wh_log, [at |-> gw_now, request |-> req,
                                        status |-> out.status,
                                        published |-> out.published])
    /\ UNCHANGED dd_log
    /\ UNCHANGED nonDedupeVars

\* time passes, to a later instant
ClockStep(secs) ==
    /\ StartTime + secs > gw_now
    /\ gw_now' = StartTime + secs
    /\ UNCHANGED <<gw_token, gw_whatsapp_secret, gw_slack_secret, gw_dedupe,
                   gw_errors, gw_request, gw_status, gw_published>>
    /\ UNCHANGED dedupeVars
    /\ UNCHANGED nonDedupeVars

DedupeIdle ==
    /\ dd_log = << >>
    /\ wh_log = << >>

DedupeNext ==
    \/ \E site \in DedupeSites : DedupeCall(site)
    \/ \E req \in WebhookPosts(gw_now) : WebhookPost(req)
    \/ \E secs \in ClockInstants : ClockStep(secs)

(***************************************************************************)
(* MessageBus  (core/src/bus.rs) and the tasks that receive from it        *)
(***************************************************************************)
\* bounds of the bus model: the capacity the bus is created with (100 in
\* cli/src/main.rs) and the number of events published
BusCapacity == 2
MaxPublishes == 3

\* tokio broadcast channel: log is every value sent, in send order, of
\* which the last `capacity` are retained; a receiver holds the number of
\* values it has passed
channel(capacity) ==
    [log |-> << >>, capacity |-> capacity, closed |-> FALSE]

\* Sender::send never waits: a value that finds the buffer full overwrites
\* the oldest one
send(chan, value) ==
    IF chan.closed THEN chan ELSE [chan EXCEPT !.log = Append(@, value)]

\* the number of values of the log that are no longer retained
overwritten(chan) ==
    IF Len(chan.log) > chan.capacity THEN Len(chan.log) - chan.capacity ELSE 0

\* a variant that hands out the newest retained value
recv_newest(chan, pos) ==
    IF pos < overwritten(chan)
    THEN [result |-> "Lagged", n |-> overwritten(chan) - pos,
          value |-> NoMessage, pos |-> overwritten(chan)]
    ELSE IF pos < Len(chan.log)
    THEN [result |-> "Ok", n |-> 0, value |-> chan.log[Len(chan.log)],
          pos |-> pos + 1]
    ELSE IF chan.closed
    THEN [result |-> "Closed", n |-> 0, value |-> NoMessage, pos |-> pos]
    ELSE [result |-> "Pending", n |-> 0, value |-> NoMessage, pos |-> pos]

\* Receiver::recv: Lagged(n) when n values the receiver had not passed were
\* overwritten, the receiver then stands at the oldest retained value; the
\* next value otherwise; Closed when every sender is gone and nothing is
\* left; the call stays pending while the channel is open and empty
recv(chan, pos) ==
    IF pos < overwritten(chan)
    THEN [result |-> "Lagged", n |-> overwritten(chan) - pos,
          value |-> NoMessage, pos |-> overwritten(chan)]
    ELSE IF pos < Len(chan.log)
    THEN [result |-> "Ok", n |-> 0, value |-> chan.log[pos + 1],
          pos |-> pos + 1]
    ELSE IF chan.closed
    THEN [result |-> "Closed", n |-> 0, value |-> NoMessage, pos |-> pos]
    ELSE [result |-> "Pending", n |-> 0, value |-> NoMessage, pos |-> pos]

MessageBus_new(capacity) ==
    [tx |-> channel(capacity), inbound_tx |-> channel(capacity),
     messages_in |-> 0, messages_out |-> 0]

\* Event: InboundMessage(Message), OutboundMessage(Message) or SystemLog
Event(kind, message) == [kind |-> kind, message |-> message]

\* a variant that copies every message event to the inbound queue
MessageBus_publish_fanout(b, event) ==
    IF event.kind \in {"InboundMessage", "OutboundMessage"}
    THEN [b EXCEPT !.inbound_tx = send(@, event.message),
                   !.messages_in = @ + 1,
                   !.tx = send(@, event)]
    ELSE [b EXCEPT !.tx = send(@, event)]

MessageBus_publish(b, event) ==
    IF event.kind = "InboundMessage"
    THEN [b EXCEPT !.inbound_tx = send(@, event.message),
                   !.messages_in = @ + 1,
                   !.tx = send(@, event)]
    ELSE IF event.kind = "OutboundMessage"
    THEN [b EXCEPT !.messages_out = @ + 1, !.tx = send(@, event)]
    ELSE [b EXCEPT !.tx = send(@, event)]

\* the tasks that receive from the bus: the gateway's channel monitor and
\* its /ws/events handler on the general queue, the agent loop on the
\* inbound queue
GeneralSubscribers == {"monitor", "ws_events"}
Subscribers == GeneralSubscribers \cup {"agent_loop"}

\* the channels that publish inbound messages, and the session of each
InboundPublishers == {"telegram", "whatsapp"}
SessionOf(publisher) == <<publisher, ":", "u1">>

\* a receiver: state is "new" before the task subscribes, "running" while
\* it loops on recv, "stopped" after it left the loop; got is what recv
\* returned to it, in order
Receiver_new == [state |-> "new", pos |-> 0, got |-> << >>]

\* Sender::subscribe: the receiver sees the values sent from now on
subscribe(chan) ==
    [state |-> "running", pos |-> Len(chan.log), got |-> << >>]

\* the n-th message a channel or the agent loop publishes
NumberedMessage(publisher, role, session_key, n) ==
    metadata_insert(
        with_sender(Message_new(publisher, session_key, role,
                                <<"message ", ToString(n)>>), publisher),
        "n", n)

\* the messages of one sender on the general queue
SentBy(b, kind, sender) ==
    {i \in 1..Len(b.tx.log) :
         /\ b.tx.log[i].kind = kind
         /\ b.tx.log[i].message.sender_id = sender}

\* the bus as the tasks started with the program find it: the gateway's
\* monitor and the agent loop have subscribed, no /ws/events client has
BusIdle ==
    /\ bus = MessageBus_new(BusCapacity)
    /\ bus_rx = [s \in Subscribers |->
                    IF s = "ws_events" THEN Receiver_new
                    ELSE subscribe(channel(BusCapacity))]


\* what recv returned, as the receiver keeps it
Received(r) == [result |-> r.result, n |-> r.n, value |-> r.value]

\* a variant that leaves the loop on Lagged as well
after_recv_strict(rx, r) ==
    [state |-> IF r.result \in {"Closed", "Lagged"} THEN "stopped" ELSE "running",
     pos |-> r.pos,
     got |-> Append(rx.got, Received(r))]

\* the receiver after recv returned r: every task leaves its loop on Closed
\* and stays in it on Ok and on Lagged
after_recv(rx, r) ==
    [state |-> IF r.result = "Closed" THEN "stopped" ELSE "running",
     pos |-> r.pos,
     got |-> Append(rx.got, Received(r))]

\* a variant in which the receivers of a channel share one cursor
deliver_shared(rxs, s, r) ==
    [t \in DOMAIN rxs |->
        IF t = s THEN after_recv(rxs[t], r)
        ELSE IF t \in GeneralSubscribers /\ rxs[t].pos < r.pos
        THEN [rxs[t] EXCEPT !.pos = r.pos]
        ELSE rxs[t]]

\* recv returned r to the task s: every receiver has a cursor of its own
deliver(rxs, s, r) ==
    [rxs EXCEPT ![s] = after_recv(@, r)]

\* what is published from outside the agent loop: inbound messages by the
\* channels, outbound messages by the gateway's send API, system logs
EventSources ==
    { [kind |-> "InboundMessage", sender |-> p] : p \in InboundPublishers }
    \cup { [kind |-> "OutboundMessage", sender |-> "api"],
           [kind |-> "SystemLog", sender |-> "system"] }

InboundSources == {src \in EventSources : src.kind = "InboundMessage"}

\* the events published from outside the agent loop so far
Published(b) ==
    Cardinality({i \in 1..Len(b.tx.log) : b.tx.log[i].message.sender_id # "agent"})

\* MessageBus::publish called with the next event of a source
Publish(src) ==
    /\ ~bus.tx.closed
    /\ Published(bus) < MaxPublishes
    /\ LET n == Cardinality(SentBy(bus, src.kind, src.sender)) + 1
           role == IF src.kind = "InboundMessage" THEN "user"
                   ELSE IF src.kind = "OutboundMessage" THEN "assistant"
                   ELSE "system"
           message == NumberedMessage(src.sender, role, SessionOf(src.sender), n)
       IN  bus' = MessageBus_publish(bus, Event(src.kind, message))
    /\ UNCHANGED bus_rx
    /\ UNCHANGED nonBusVars

\* a client connects to /ws/events: handle_ws_events subscribes to the
\* general queue
Subscribe(s) ==
    /\ bus_rx[s].state = "new"
    /\ ~bus.tx.closed
    /\ bus_rx' = [bus_rx EXCEPT ![s] = subscribe(bus.tx)]
    /\ UNCHANGED bus
    /\ UNCHANGED nonBusVars

\* one pass of the loop of a gateway task
Receive(s) ==
    /\ s \in GeneralSubscribers
    /\ bus_rx[s].state = "running"
    /\ LET r == recv(bus.tx, bus_rx[s].pos)
       IN  /\ r.result # "Pending"
           /\ bus_rx' = deliver(bus_rx, s, r)
    /\ UNCHANGED bus
    /\ UNCHANGED nonBusVars

\* one pass of the loop of AgentLoop::run; the turn of a received message
\* ends with one OutboundMessage published on the message's session
AgentRecv ==
    /\ bus_rx["agent_loop"].state = "running"
    /\ LET r == recv(bus.inbound_tx, bus_rx["agent_loop"].pos)
           n == Cardinality(SentBy(bus, "OutboundMessage", "agent")) + 1
           reply == NumberedMessage("agent", "assistant", r.value.session_key, n)
       IN  /\ r.result # "Pending"
           /\ bus_rx' = deliver(bus_rx, "agent_loop", r)
           /\ bus' = IF r.result = "Ok"
                     THEN MessageBus_publish(bus, Event("OutboundMessage", reply))
                     ELSE bus
    /\ UNCHANGED nonBusVars

\* the bus is dropped: both senders go away
DropBus ==
    /\ ~bus.tx.closed
    /\ bus' = [bus EXCEPT !.tx.closed = TRUE, !.inbound_tx.closed = TRUE]
    /\ UNCHANGED bus_rx
    /\ UNCHANGED nonBusVars

\* the bus and the gateway's two tasks
BusNext ==
    \/ \E src \in EventSources : Publish(src)
    \/ Subscribe("ws_events")
    \/ \E s \in GeneralSubscribers : Receive(s)
    \/ DropBus

\* the bus, the agent loop and the gateway's monitor
AgentBusNext ==
    \/ \E src \in InboundSources : Publish(src)
    \/ AgentRecv
    \/ Receive("monitor")
    \/ DropBus

\* the inbound queue and the agent loop
InboundNext ==
    \/ \E src \in InboundSources : Publish(src)
    \/ AgentRecv
    \/ DropBus

(***************************************************************************)
(* FailoverProvider and ReliableProvider  (providers/src/reliable.rs)      *)
(***************************************************************************)
\* bounds of the provider model: the length of the failover list and the
\* retries a ReliableProvider is configured with
MaxProviders == 2
MaxRetries == 2

MIN_BACKOFF_MS == 100
MAX_BACKOFF_MS == 2000

\* ProviderError and its Display
ApiError(message) == [kind |-> "ApiError", message |-> message]
ConfigError(message) == [kind |-> "ConfigError", message |-> message]
NetworkError(message) == [kind |-> "NetworkError", message |-> message]
NoError == [kind |-> "none", message |-> << >>]

display(err) ==
    IF err.kind = "ApiError" THEN <<"API error: ">> \o err.message
    ELSE IF err.kind = "ConfigError" THEN <<"Configuration error: ">> \o err.message
    ELSE <<"Network error: ">> \o err.message

\* Result<GenerationResponse, ProviderError>
NoResponse == [content |-> << >>]
Ok(resp) == [ok |-> TRUE, response |-> resp, error |-> NoError]
Err(err) == [ok |-> FALSE, response |-> NoResponse, error |-> err]
NoResult == [ok |-> FALSE, response |-> NoResponse, error |-> NoError]

\* GenerationOptions of the caller
CallerOptions ==
    [model |-> <<"caller", "-model">>, max_tokens |-> Some("1024"),
     temperature |-> Some("0.7")]

\* str::to_lowercase on the pieces error messages are made of
to_lowercase(piece) ==
    IF piece = "Rate Limit" THEN "rate limit"
    ELSE IF piece = "Service Unavailable" THEN "service unavailable"
    ELSE piece

\* str::contains: a message is a sequence of pieces, a marker is found when
\* it is one of them
contains(message, marker) ==
    \E i \in 1..Len(message) : message[i] = marker

lowercased(message) == [i \in 1..Len(message) |-> to_lowercase(message[i])]

\* a variant that retries every error
is_retryable_always(err) == err.kind # "none"

is_retryable(err) ==
    IF err.kind = "NetworkError" THEN TRUE
    ELSE IF err.kind = "ApiError"
    THEN LET lower == lowercased(err.message)
         IN  \/ contains(lower, "429")
             \/ contains(lower, "rate limit")
             \/ contains(lower, "too many requests")
             \/ contains(lower, "timeout")
             \/ contains(lower, "temporar")
             \/ contains(lower, "unavailable")
             \/ contains(lower, "503")
    ELSE FALSE

\* what a concrete provider answers a chat call with
ProviderErrors ==
    { NetworkError(<<"connection reset">>),
      ApiError(<<"Rate Limit", " exceeded">>),
      ApiError(<<"status ", "503">>),
      ApiError(<<"invalid request">>),
      ConfigError(<<"missing api key">>) }

Response(name, options) ==
    [content |-> <<"reply of ", name, " by ", options.model>>]

ChatOutcomes(name, options) ==
    {Ok(Response(name, options))} \cup {Err(e) : e \in ProviderErrors}

\* the failover lists: the first n names, each with or without a model
\* override
ProviderNames == <<"openrouter", "openai", "anthropic", "ollama">>

ProviderEntry(name, model_override) ==
    [name |-> name, model_override |-> model_override]

RECURSIVE ProviderLists(_)
ProviderLists(n) ==
    IF n = 0 THEN {<< >>}
    ELSE ProviderLists(n - 1)
         \cup { Append(l, ProviderEntry(ProviderNames[n], o)) :
                  l \in {k \in ProviderLists(n - 1) : Len(k) = n - 1},
                  o \in {None, Some(<<ProviderNames[n], "-model">>)} }

\* a variant that hands the caller's options on as they are
provider_options_plain(options, model_override) == options

\* the options a provider of the list is called with
provider_options(options, model_override) ==
    IF model_override.some
    THEN [options EXCEPT !.model = model_override.value]
    ELSE options

\* failures.join(" | ")
RECURSIVE join(_, _)
join(failures, sep) ==
    IF failures = << >> THEN << >>
    ELSE IF Len(failures) = 1 THEN failures[1]
    ELSE failures[1] \o <<sep>> \o join(Tail(failures), sep)

AllProvidersFailed(failures) ==
    ApiError(<<"all providers failed; ">> \o join(failures, " | "))

\* FailoverProvider::new, and the state of one chat call: next is the
\* provider the for loop stands at, calls the chat calls made so far
FailoverProvider_new(providers) ==
    [providers |-> providers, pc |-> "idle", next |-> 1,
     failures |-> << >>, calls |-> << >>, result |-> NoResult]

\* chat is called: an empty list is answered at once
FailoverChat ==
    /\ failover.pc = "idle"
    /\ failover' =
         IF failover.providers = << >>
         THEN [failover EXCEPT
                  !.pc = "done",
                  !.result = Err(ConfigError(<<"no providers available for failover">>))]
         ELSE [failover EXCEPT !.pc = "loop"]
    /\ UNCHANGED reliable
    /\ UNCHANGED nonProviderVars

\* one pass of the for loop: the provider is called and answers; after the
\* failure of the last provider the aggregated error is returned
FailoverTry ==
    /\ failover.pc = "loop"
    /\ LET entry == failover.providers[failover.next]
           options == provider_options(CallerOptions, entry.model_override)
       IN  \E outcome \in ChatOutcomes(entry.name, options) :
             LET call == [name |-> entry.name, options |-> options,
                          outcome |-> outcome]
                 failures == Append(failover.failures,
                                    <<entry.name, ": ">> \o display(outcome.error))
             IN  failover' =
                   IF outcome.ok
                   THEN [failover EXCEPT !.pc = "done",
                                         !.calls = Append(@, call),
                                         !.result = outcome]
                   ELSE IF failover.next = Len(failover.providers)
                   THEN [failover EXCEPT !.pc = "done",
                                         !.calls = Append(@, call),
                                         !.failures = failures,
                                         !.next = @ + 1,
                                         !.result = Err(AllProvidersFailed(failures))]
                   ELSE [failover EXCEPT !.calls = Append(@, call),
                                         !.failures = failures,
                                         !.next = @ + 1]
    /\ UNCHANGED reliable
    /\ UNCHANGED nonProviderVars

FailoverIdle == failover = FailoverProvider_new(<< >>)

FailoverInit ==
    \E providers \in ProviderLists(MaxProviders) :
        failover = FailoverProvider_new(providers)

FailoverNext == FailoverChat \/ FailoverTry

\* ReliableProvider::new, and the state of one chat call: attempt is the
\* loop variable, calls the answers of the inner provider, sleeps the
\* backoffs slept
max_of_ms(a, b) == IF a >= b THEN a ELSE b
min_of_ms(a, b) == IF a <= b THEN a ELSE b

ReliableProvider_new(max_retries, base_backoff_ms) ==
    [max_retries |-> max_retries,
     base_backoff_ms |-> max_of_ms(base_backoff_ms, MIN_BACKOFF_MS),
     pc |-> "idle", attempt |-> 0, backoff_ms |-> 0,
     calls |-> << >>, sleeps |-> << >>, result |-> NoResult]

ReliableChat ==
    /\ reliable.pc = "idle"
    /\ reliable' = [reliable EXCEPT !.pc = "loop",
                                    !.backoff_ms = reliable.base_backoff_ms]
    /\ UNCHANGED failover
    /\ UNCHANGED nonProviderVars

\* one pass of the for loop: the inner provider is called and answers
ReliableTry ==
    /\ reliable.pc = "loop"
    /\ \E outcome \in ChatOutcomes("inner", CallerOptions) :
         reliable' =
           IF outcome.ok
           THEN [reliable EXCEPT !.pc = "done",
                                 !.calls = Append(@, outcome),
                                 !.result = outcome]
           ELSE IF ~is_retryable(outcome.error)
                   \/ reliable.attempt = reliable.max_retries
           THEN [reliable EXCEPT !.pc = "done",
                                 !.calls = Append(@, outcome),
                                 !.result = outcome]
           ELSE [reliable EXCEPT
                    !.calls = Append(@, outcome),
                    !.sleeps = Append(@, reliable.backoff_ms),
                    !.backoff_ms = min_of_ms(2 * reliable.backoff_ms, MAX_BACKOFF_MS),
                    !.attempt = @ + 1]
    /\ UNCHANGED failover
    /\ UNCHANGED nonProviderVars

ReliableIdle == reliable = ReliableProvider_new(0, 0)

\* the configurations of the wrapper: a base below the floor, one that
\* doubles up to the cap, and one above the cap
BaseBackoffs == {0, 800, 3000}

ReliableInit ==
    \E max_retries \in 0..MaxRetries, base \in BaseBackoffs :
        reliable = ReliableProvider_new(max_retries, base)

ReliableNext == ReliableChat \/ ReliableTry

ProviderIdle == FailoverIdle /\ ReliableIdle

(***************************************************************************)
(* Outbound adapters  (slack/src/lib.rs, whatsapp/src/lib.rs)              *)
(***************************************************************************)
\* bound of the adapter model: the largest retry_jitter_ms configured
MaxJitterMs == 2

RETRY_ATTEMPTS == 3
FIRST_DELAY_MS == 1000

\* what an HTTP POST of the adapter is answered with: no response at all
\* (a network error), or a status and a body whose "ok" field is read
HttpResponse(sent, status, ok) == [sent |-> sent, status |-> status, ok |-> ok]

HttpResponses ==
    {HttpResponse(FALSE, 0, FALSE)}
    \cup {HttpResponse(TRUE, st, ok) : st \in {200, 204, 429, 500}, ok \in BOOLEAN}

\* StatusCode::is_success
is_success(status) == status >= 200 /\ status < 300

\* a variant that takes any 2xx answer for a delivery
delivered_by_status(name, resp) == resp.sent /\ is_success(resp.status)

\* the match on the response: WhatsApp takes a 2xx answer for a delivery,
\* Slack a 2xx answer whose body says ok = true
delivered(name, resp) ==
    IF name = "slack"
    THEN resp.sent /\ is_success(resp.status) /\ resp.ok
    ELSE resp.sent /\ is_success(resp.status)

\* jitter_delay: zero without a configured jitter, otherwise the clock's
\* milliseconds mixed with the attempt, modulo retry_jitter_ms + 1; the
\* clock can give every remainder
jitter_delay(retry_jitter_ms) ==
    IF retry_jitter_ms = 0 THEN {0} ELSE 0..retry_jitter_ms

\* the adapter and the state of one send_outbound_with_retry: attempt is
\* the loop variable, delay_ms the delay variable, attempts the answers
\* received, sleeps the waits made
Adapter_new(name, retry_jitter_ms, phone_number_id) ==
    [channel |-> name, retry_jitter_ms |-> retry_jitter_ms,
     phone_number_id |-> phone_number_id,
     pc |-> "idle", attempt |-> 1, delay_ms |-> FIRST_DELAY_MS,
     attempts |-> << >>, sleeps |-> << >>, result |-> "none"]

\* send_outbound_with_retry is called: the WhatsApp adapter gives up at
\* once without a phone_number_id
AdapterSend ==
    /\ adapter.pc = "idle"
    /\ adapter' =
         IF adapter.channel = "whatsapp" /\ ~adapter.phone_number_id.some
         THEN [adapter EXCEPT !.pc = "done", !.result = "failed"]
         ELSE [adapter EXCEPT !.pc = "loop"]
    /\ UNCHANGED nonAdapterVars

\* one pass of the for loop: the POST is answered; a failed attempt is
\* followed by the sleep, and the third failed attempt by the error
AdapterAttempt ==
    /\ adapter.pc = "loop"
    /\ \E resp \in HttpResponses, jitter \in jitter_delay(adapter.retry_jitter_ms) :
         adapter' =
           IF delivered(adapter.channel, resp)
           THEN [adapter EXCEPT !.pc = "done",
                                !.attempts = Append(@, resp),
                                !.result = "sent"]
           ELSE LET slept == [adapter EXCEPT
                                 !.attempts = Append(@, resp),
                                 !.sleeps = Append(@, [delay_ms |-> adapter.delay_ms,
                                                       jitter_ms |-> jitter]),
                                 !.delay_ms = 2 * adapter.delay_ms,
                                 !.attempt = @ + 1]
                IN  IF adapter.attempt = RETRY_ATTEMPTS
                    THEN [slept EXCEPT !.pc = "done", !.result = "failed"]
                    ELSE slept
    /\ UNCHANGED nonAdapterVars

AdapterIdle == adapter = Adapter_new("slack", 0, None)

\* the adapters as they are configured
AdapterInit ==
    \E jitter \in {0, MaxJitterMs} :
        \/ adapter = Adapter_new("slack", jitter, None)
        \/ \E phone \in {None, Some("1555")} :
               adapter = Adapter_new("whatsapp", jitter, phone)

AdapterNext == AdapterSend \/ AdapterAttempt

(***************************************************************************)
(* CronService  (cron/src/lib.rs)                                          *)
(***************************************************************************)
\* bounds of the cron model: the jobs the store holds at once, the last
\* instant of the clock, in milliseconds, and the calls of add_job,
\* remove_job and enable_job that are made
MaxJobs == 2
MaxCronClock == 2
MaxCronCalls == 3

\* Option<i64>
NoMs == [some |-> FALSE, value |-> 0]
SomeMs(v) == [some |-> TRUE, value |-> v]

\* CronSchedule by kind
At(at_ms) == [kind |-> "at", at_ms |-> SomeMs(at_ms), every_ms |-> NoMs]
Every(every_ms) == [kind |-> "every", at_ms |-> NoMs, every_ms |-> SomeMs(every_ms)]
CronExpr == [kind |-> "cron", at_ms |-> NoMs, every_ms |-> NoMs]

\* the schedules the callers of add_job pass
Schedules == {At(1), Every(0), Every(1), CronExpr}

compute_next_run(schedule, now_ms) ==
    IF schedule.kind = "at"
    THEN IF schedule.at_ms.some /\ schedule.at_ms.value > now_ms
         THEN schedule.at_ms
         ELSE NoMs
    ELSE IF schedule.kind = "every"
    THEN IF schedule.every_ms.some /\ schedule.every_ms.value > 0
         THEN SomeMs(now_ms + schedule.every_ms.value)
         ELSE NoMs
    ELSE NoMs

CronStore_default == << >>

\* the job add_job builds at the instant now_ms
CronJob_new(schedule, message, to_channel, now_ms) ==
    [id |-> ToString(now_ms),
     enabled |-> TRUE,
     schedule |-> schedule,
     payload |-> [kind |-> "agent_turn", message |-> message,
                  channel |-> to_channel],
     state |-> [next_run_at_ms |-> compute_next_run(schedule, now_ms),
                last_run_at_ms |-> NoMs,
                last_status |-> None],
     updated_at_ms |-> now_ms,
     delete_after_run |-> FALSE]

add_job(jobs, schedule, message, to_channel, now_ms) ==
    Append(jobs, CronJob_new(schedule, message, to_channel, now_ms))

remove_job(jobs, job_id) == SelectSeq(jobs, LAMBDA j : j.id # job_id)

\* the first job of the store with the id, 0 when there is none
find_job(jobs, job_id) ==
    IF \E i \in 1..Len(jobs) : jobs[i].id = job_id
    THEN CHOOSE i \in 1..Len(jobs) :
             /\ jobs[i].id = job_id
             /\ \A k \in 1..(i - 1) : jobs[k].id # job_id
    ELSE 0

\* a variant that leaves the next run of a job it disables
enable_job_keeping(jobs, job_id, enabled, now_ms) ==
    LET i == find_job(jobs, job_id) IN
    IF i = 0 THEN jobs
    ELSE [jobs EXCEPT ![i].enabled = enabled,
                      ![i].updated_at_ms = now_ms,
                      ![i].state.next_run_at_ms =
                          IF enabled THEN compute_next_run(jobs[i].schedule, now_ms)
                          ELSE @]

enable_job(jobs, job_id, enabled, now_ms) ==
    LET i == find_job(jobs, job_id) IN
    IF i = 0 THEN jobs
    ELSE [jobs EXCEPT ![i].enabled = enabled,
                      ![i].updated_at_ms = now_ms,
                      ![i].state.next_run_at_ms =
                          IF enabled THEN compute_next_run(jobs[i].schedule, now_ms)
                          ELSE NoMs]

\* a variant that fires a job only after its time has passed
is_due_after(job, now_ms) ==
    /\ job.enabled
    /\ job.state.next_run_at_ms.some
    /\ job.state.next_run_at_ms.value < now_ms

\* tick fires the job
is_due(job, now_ms) ==
    /\ job.enabled
    /\ job.state.next_run_at_ms.some
    /\ job.state.next_run_at_ms.value <= now_ms

\* the session key and the message tick builds for a job
cron_session_key(job) ==
    IF job.payload.channel.some
    THEN <<"cron", ":", job.payload.channel.value>>
    ELSE <<"cron", ":", job.id>>

cron_message(job) ==
    metadata_insert(
        with_sender(Message_new("cron", cron_session_key(job), "user",
                                job.payload.message), "system"),
        "cron_job_id", job.id)

\* Sender::send returns an error when the channel has no receiver
has_receiver(rxs) == \E s \in GeneralSubscribers : rxs[s].state = "running"

\* a variant that leaves the next run of a job it fires
fired_stale(job, now_ms, sent) ==
    [job EXCEPT !.state.last_status = IF sent THEN Some("ok") ELSE Some("error"),
                !.state.last_run_at_ms = SomeMs(now_ms),
                !.updated_at_ms = now_ms]

\* the job after tick fired it
fired(job, now_ms, sent) ==
    [job EXCEPT !.state.last_status = IF sent THEN Some("ok") ELSE Some("error"),
                !.state.last_run_at_ms = SomeMs(now_ms),
                !.updated_at_ms = now_ms,
                !.state.next_run_at_ms = compute_next_run(job.schedule, now_ms)]

\* tick: the store and the bus after the jobs from position i on were
\* visited
RECURSIVE tick_from(_, _, _, _, _)
tick_from(jobs, b, i, now_ms, sent) ==
    IF i > Len(jobs) THEN [jobs |-> jobs, bus |-> b]
    ELSE IF is_due(jobs[i], now_ms)
    THEN tick_from([jobs EXCEPT ![i] = fired(jobs[i], now_ms, sent)],
                   MessageBus_publish(b, Event("InboundMessage", cron_message(jobs[i]))),
                   i + 1, now_ms, sent)
    ELSE tick_from(jobs, b, i + 1, now_ms, sent)

tick(jobs, b, now_ms, sent) ==
    LET visited == tick_from(jobs, b, 1, now_ms, sent)
        to_delete == {jobs[i].id : i \in {k \in 1..Len(jobs) :
                          is_due(jobs[k], now_ms) /\ jobs[k].delete_after_run}}
    IN  [jobs |-> SelectSeq(visited.jobs, LAMBDA j : j.id \notin to_delete),
         bus |-> visited.bus]

\* the ids a caller of remove_job and enable_job may name
JobIds == {ToString(t) : t \in 0..MaxCronClock}

\* the channels a job is delivered on
JobChannels == {None, Some("slack")}

CronAddJob(schedule, to_channel) ==
    /\ Len(cron.jobs) < MaxJobs
    /\ cron.calls < MaxCronCalls
    /\ cron' = [cron EXCEPT !.jobs = add_job(@, schedule, <<"report">>,
                                             to_channel, cron.now_ms),
                            !.last_call = "add_job", !.calls = @ + 1]
    /\ UNCHANGED busVars
    /\ UNCHANGED nonCronVars

CronRemoveJob(job_id) ==
    /\ cron.calls < MaxCronCalls
    /\ cron' = [cron EXCEPT !.jobs = remove_job(@, job_id),
                            !.last_call = "remove_job", !.calls = @ + 1]
    /\ UNCHANGED busVars
    /\ UNCHANGED nonCronVars

CronEnableJob(job_id, enabled) ==
    /\ cron.calls < MaxCronCalls
    /\ cron' = [cron EXCEPT !.jobs = enable_job(@, job_id, enabled, cron.now_ms),
                            !.last_call = "enable_job", !.calls = @ + 1]
    /\ UNCHANGED busVars
    /\ UNCHANGED nonCronVars

\* the ticker of start_loop calls tick; last_call names the operation that
\* was called last, calls counts the calls of the other three
CronTick ==
    /\ LET after == tick(cron.jobs, bus, cron.now_ms, has_receiver(bus_rx))
       IN  /\ cron' = [cron EXCEPT !.jobs = after.jobs, !.last_call = "tick"]
           /\ bus' = after.bus
    /\ UNCHANGED bus_rx
    /\ UNCHANGED nonCronVars

\* time passes
CronClock ==
    /\ cron.now_ms < MaxCronClock
    /\ cron' = [cron EXCEPT !.now_ms = @ + 1, !.last_call = "none"]
    /\ UNCHANGED busVars
    /\ UNCHANGED nonCronVars

\* the service started on a workspace without a jobs file
CronIdle ==
    cron = [jobs |-> CronStore_default, now_ms |-> 0, last_call |-> "none",
            calls |-> 0]

\* load_store: the jobs file of an earlier run, holding one job that
\* add_job built at the instant 0, as it stands or marked delete_after_run
StoredJobFiles ==
    {<<[CronJob_new(schedule, <<"report">>, None, 0)
            EXCEPT !.delete_after_run = once]>> :
         schedule \in {At(1), Every(1)}, once \in BOOLEAN}

\* the service started on a workspace with a jobs file
CronLoaded ==
    \E stored \in StoredJobFiles :
        cron = [jobs |-> stored, now_ms |-> 0, last_call |-> "none", calls |-> 0]

\* the service on a stored jobs file: jobs are added for the default
\* channel, enabled and disabled, and fired
StoredCronNext ==
    \/ \E schedule \in Schedules : CronAddJob(schedule, None)
    \/ \E job_id \in JobIds, enabled \in BOOLEAN : CronEnableJob(job_id, enabled)
    \/ CronTick
    \/ CronClock

\* AgentLoop::run begins: the agent loop subscribes to the inbound queue
AgentSubscribe ==
    /\ bus_rx["agent_loop"].state = "new"
    /\ ~bus.inbound_tx.closed
    /\ bus_rx' = [bus_rx EXCEPT !["agent_loop"] = subscribe(bus.inbound_tx)]
    /\ UNCHANGED bus
    /\ UNCHANGED nonBusVars

\* the bus as MessageBus::new leaves it: no task has subscribed yet
BusCreated ==
    /\ bus = MessageBus_new(BusCapacity)
    /\ bus_rx = [s \in Subscribers |-> Receiver_new]

\* the start of the program: the cron loop is spawned on a stored jobs
\* file, the tasks of the gateway subscribe to the general queue and the
\* agent loop to the inbound queue, in any order
StartupNext ==
    \/ \E s \in GeneralSubscribers : Subscribe(s)
    \/ AgentSubscribe
    \/ AgentRecv
    \/ \E schedule \in Schedules : CronAddJob(schedule, None)
    \/ CronTick
    \/ CronClock

CronNext ==
    \/ \E schedule \in Schedules, to_channel \in JobChannels :
           CronAddJob(schedule, to_channel)
    \/ \E job_id \in JobIds : CronRemoveJob(job_id)
    \/ \E job_id \in JobIds, enabled \in BOOLEAN : CronEnableJob(job_id, enabled)
    \/ CronTick
    \/ CronClock

(***************************************************************************)
(* The publishers of inbound messages  (server/src/gateway.rs,             *)
(* cli/src/main.rs, heartbeat/src/lib.rs, tools/src/sessions_tools.rs)     *)
(***************************************************************************)
\* the characters of the strings the publishers put into a session key; a
\* string that is not listed is a single character
Spelled ==
    [s \in {"http", "cron", "cli", "default", "heartbeat", "system",
            "whatsapp", "u1", "uuid-1", "team chat", "slack", "slackbot",
            "teams"} |->
        CASE s = "http" -> <<"h", "t", "t", "p">>
          [] s = "cron" -> <<"c", "r", "o", "n">>
          [] s = "cli" -> <<"c", "l", "i">>
          [] s = "default" -> <<"d", "e", "f", "a", "u", "l", "t">>
          [] s = "heartbeat" -> <<"h", "e", "a", "r", "t", "b", "e", "a", "t">>
          [] s = "system" -> <<"s", "y", "s", "t", "e", "m">>
          [] s = "whatsapp" -> <<"w", "h", "a", "t", "s", "a", "p", "p">>
          [] s = "u1" -> <<"u", "1">>
          [] s = "uuid-1" -> <<"u", "u", "i", "d", "-", "1">>
          [] s = "team chat" -> <<"t", "e", "a", "m", " ", "c", "h", "a", "t">>
          [] s = "slack" -> <<"s", "l", "a", "c", "k">>
          [] s = "slackbot" -> <<"s", "l", "a", "c", "k", "b", "o", "t">>
          [] s = "teams" -> <<"t", "e", "a", "m", "s">>]

chars_of(s) == IF s \in DOMAIN Spelled THEN Spelled[s] ELSE <<s>>

\* the characters of a string made of pieces, as format! puts them together
RECURSIVE chars(_)
chars(pieces) ==
    IF pieces = << >> THEN << >>
    ELSE chars_of(Head(pieces)) \o chars(Tail(pieces))

\* the session keys a caller of the HTTP API or of the sessions_send tool
\* passes
CallerSessionKeys == { <<"http", ":", "u1">>, <<"team chat">> }

\* SendMessageRequest: session_key is absent or given
SendMessageRequests ==
    { [session_key |-> None] } \cup
    { [session_key |-> [some |-> TRUE, value |-> k]] : k \in CallerSessionKeys }

default_session_key == <<"http", ":", "uuid-1">>

\* the inbound messages published from outside the channels so far
PublishedInbound(b) == Len(b.inbound_tx.log)

\* POST /api/message with a valid token
ApiSendMessage(req) ==
    /\ PublishedInbound(bus) < MaxPublishes
    /\ LET session_key == IF req.session_key.some THEN req.session_key.value
                          ELSE default_session_key
           message == with_sender(Message_new("http", session_key, "user",
                                              <<"hello">>), "http_client")
       IN  bus' = MessageBus_publish(bus, Event("InboundMessage", message))
    /\ UNCHANGED bus_rx
    /\ UNCHANGED nonBusVars

\* POST /api/sessions/send with a valid token
ApiSessionSend(session_key) ==
    /\ PublishedInbound(bus) < MaxPublishes
    /\ LET message == with_sender(Message_new("api.sessions", session_key, "user",
                                              <<"hello">>), "api_session_send")
       IN  bus' = MessageBus_publish(bus, Event("InboundMessage", message))
    /\ UNCHANGED bus_rx
    /\ UNCHANGED nonBusVars

\* the sessions_send tool executed with the arguments of a tool call
SessionsSendTool(session_key) ==
    /\ PublishedInbound(bus) < MaxPublishes
    /\ LET message == with_sender(Message_new("sessions_tool", session_key, "user",
                                              <<"hello">>), "sessions_send_tool")
       IN  bus' = MessageBus_publish(bus, Event("InboundMessage", message))
    /\ UNCHANGED bus_rx
    /\ UNCHANGED nonBusVars

\* the whatsapp webhook publishing the message of a sender
WebhookInbound(from) ==
    /\ PublishedInbound(bus) < MaxPublishes
    /\ LET message == with_sender(Message_new("whatsapp", <<"whatsapp", ":", from>>,
                                              "user", <<"hello">>), from)
       IN  bus' = MessageBus_publish(bus, Event("InboundMessage", message))
    /\ UNCHANGED bus_rx
    /\ UNCHANGED nonBusVars

\* the heartbeat service publishing its prompt
HeartbeatBeat ==
    /\ PublishedInbound(bus) < MaxPublishes
    /\ LET message == with_sender(Message_new("heartbeat", <<"heartbeat", ":", "system">>,
                                              "user", <<"prompt">>), "system")
       IN  bus' = MessageBus_publish(bus, Event("InboundMessage", message))
    /\ UNCHANGED bus_rx
    /\ UNCHANGED nonBusVars

\* the agent command of the CLI run with a message
CliAgentCommand ==
    /\ PublishedInbound(bus) < MaxPublishes
    /\ bus' = MessageBus_publish(bus,
                  Event("InboundMessage",
                        Message_new("cli", <<"default">>, "user", <<"hello">>)))
    /\ UNCHANGED bus_rx
    /\ UNCHANGED nonBusVars

\* the cron service firing a job that was due, with or without a channel
CronFires(to_channel) ==
    /\ PublishedInbound(bus) < MaxPublishes
    /\ LET job == [CronJob_new(Every(1), <<"report">>, to_channel, 0)
                      EXCEPT !.state.next_run_at_ms = SomeMs(1)]
           after == tick(<<job>>, bus, 1, has_receiver(bus_rx))
       IN  bus' = after.bus
    /\ UNCHANGED bus_rx
    /\ UNCHANGED nonBusVars

PublishNext ==
    \/ \E req \in SendMessageRequests : ApiSendMessage(req)
    \/ \E k \in CallerSessionKeys : ApiSessionSend(k)
    \/ \E k \in CallerSessionKeys : SessionsSendTool(k)
    \/ WebhookInbound("u1")
    \/ HeartbeatBeat
    \/ CliAgentCommand
    \/ \E to_channel \in JobChannels : CronFires(to_channel)
    \/ AgentRecv

(***************************************************************************)
(* Locks and awaited calls  (agent/src/session.rs, tools/src/registry.rs,  *)
(* server/src/gateway.rs, cron/src/lib.rs)                                 *)
(***************************************************************************)
\* what a task does next: take a lock, drop it, touch a file or the bus,
\* start an HTTP request or an LLM call, or get its answer
Lock(name, mode) == [op |-> "lock", lock |-> name, mode |-> mode]
Unlock(name) == [op |-> "unlock", lock |-> name, mode |-> "none"]
Local(what) == [op |-> "local", lock |-> what, mode |-> "none"]
Call(kind) == [op |-> "call", lock |-> kind, mode |-> "none"]
Return(kind) == [op |-> "return", lock |-> kind, mode |-> "none"]

\* SessionManager: every method takes the write lock of the map and holds
\* it to its end, over the session file it reads or writes
SessionManager_add_message ==
    <<Lock("sessions", "write"), Local("file"), Unlock("sessions")>>
SessionManager_get_history ==
    <<Lock("sessions", "write"), Local("file"), Unlock("sessions")>>
SessionManager_get_summary ==
    <<Lock("sessions", "write"), Local("file"), Unlock("sessions")>>
SessionManager_set_summary ==
    <<Lock("sessions", "write"), Local("file"), Unlock("sessions")>>

\* ToolRegistry: the guard of get and of the listing is dropped when the
\* method returns the Arc or the definitions
ToolRegistry_get == <<Lock("tools", "read"), Unlock("tools")>>
ToolRegistry_list_definitions == <<Lock("tools", "read"), Unlock("tools")>>
ToolRegistry_record_metrics == <<Lock("metrics", "write"), Unlock("metrics")>>

\* the provider's chat call and a tool that fetches a URL
provider_chat == <<Call("llm"), Return("llm")>>
tool_execute == <<Call("http"), Return("http")>>

\* a variant in which the registry's guard lives until the tool returned
handle_tool_call_guarded ==
    <<Lock("tools", "read")>> \o tool_execute \o <<Unlock("tools")>>
        \o ToolRegistry_record_metrics

\* one tool call of a response: get, execute, record_metrics
handle_tool_call ==
    ToolRegistry_get \o tool_execute \o ToolRegistry_record_metrics

\* process_message for a turn with one tool call and a summarization
process_message ==
    SessionManager_add_message \o SessionManager_get_history
        \o SessionManager_get_summary \o ToolRegistry_list_definitions
        \o provider_chat \o handle_tool_call \o provider_chat
        \o <<Local("publish")>> \o SessionManager_add_message
        \o SessionManager_get_history \o provider_chat
        \o SessionManager_set_summary

\* a webhook handler: dedupe_seen, publish, and record_channel_error when
\* the publish failed
webhook_handler ==
    <<Lock("dedupe", "mutex"), Unlock("dedupe"), Local("publish"),
      Lock("stats", "mutex"), Unlock("stats")>>

\* the gateway's monitor on an event of the bus
monitor_event == <<Lock("stats", "mutex"), Unlock("stats")>>

\* the /api/channels/health handler
channel_health == <<Lock("stats", "mutex"), Unlock("stats")>>

\* an adapter sending an outbound message
send_outbound == <<Call("http"), Return("http")>>

\* CronService::tick: the store's write lock over the publishes, then
\* save_store under the read lock
cron_tick ==
    <<Lock("store", "write"), Local("publish"), Unlock("store"),
      Lock("store", "read"), Local("file"), Unlock("store")>>

\* CronService::add_job called by the cron tool
cron_add_job ==
    <<Lock("store", "write"), Unlock("store"),
      Lock("store", "read"), Local("file"), Unlock("store")>>

\* the tasks of the program and what each runs, again and again
TaskNames == {"agent_loop", "webhook", "monitor", "health", "adapter",
              "cron_loop", "cron_tool"}

Script(t) ==
    CASE t = "agent_loop" -> process_message
      [] t = "webhook" -> webhook_handler
      [] t = "monitor" -> monitor_event
      [] t = "health" -> channel_health
      [] t = "adapter" -> send_outbound
      [] t = "cron_loop" -> cron_tick
      [] t = "cron_tool" -> cron_add_job

NextStep(t) == Script(t)[tasks[t].pc]

Advanced(t) ==
    IF tasks[t].pc = Len(Script(t)) THEN 1 ELSE tasks[t].pc + 1

\* a lock can be taken: nobody holds it, or it is read by others and asked
\* for reading
Grantable(name, mode, t) ==
    \A u \in TaskNames \ {t} :
        \A h \in tasks[u].held :
            h.lock = name => (h.mode = "read" /\ mode = "read")

TaskLock(t) ==
    /\ NextStep(t).op = "lock"
    /\ Grantable(NextStep(t).lock, NextStep(t).mode, t)
    /\ tasks' = [tasks EXCEPT
                    ![t].held = @ \cup {[lock |-> NextStep(t).lock,
                                         mode |-> NextStep(t).mode]},
                    ![t].pc = Advanced(t)]
    /\ UNCHANGED nonLockVars

TaskUnlock(t) ==
    /\ NextStep(t).op = "unlock"
    /\ tasks' = [tasks EXCEPT
                    ![t].held = {h \in @ : h.lock # NextStep(t).lock},
                    ![t].pc = Advanced(t)]
    /\ UNCHANGED nonLockVars

TaskLocal(t) ==
    /\ NextStep(t).op = "local"
    /\ tasks' = [tasks EXCEPT ![t].pc = Advanced(t)]
    /\ UNCHANGED nonLockVars

\* the task starts an HTTP request or an LLM call and awaits its answer
TaskCall(t) ==
    /\ NextStep(t).op = "call"
    /\ tasks' = [tasks EXCEPT ![t].awaiting = NextStep(t).lock,
                              ![t].pc = Advanced(t)]
    /\ UNCHANGED nonLockVars

TaskReturn(t) ==
    /\ NextStep(t).op = "return"
    /\ tasks' = [tasks EXCEPT ![t].awaiting = "none",
                              ![t].pc = Advanced(t)]
    /\ UNCHANGED nonLockVars

TasksIdle ==
    tasks = [t \in TaskNames |-> [pc |-> 1, held |-> {}, awaiting |-> "none"]]

LockNext ==
    \E t \in TaskNames :
        \/ TaskLock(t)
        \/ TaskUnlock(t)
        \/ TaskLocal(t)
        \/ TaskCall(t)
        \/ TaskReturn(t)

(***************************************************************************)
(* The allowed tools of a turn as a function of the skills                 *)
(* (agent/src/context.rs, tools/src/registry.rs)                           *)
(***************************************************************************)
\* bound of the policy model: the skills installed in the workspace
MaxSkills == 2

\* the skills a workspace may hold
SkillCatalogue ==
    { [name |-> "shell", permissions |-> Permissions({"exec_cmd"}),
       always |-> FALSE, available |-> TRUE],
      [name |-> "reader", permissions |-> Permissions({"read_file", "web_fetch"}),
       always |-> FALSE, available |-> TRUE],
      [name |-> "legacy", permissions |-> NoPermissions,
       always |-> FALSE, available |-> TRUE],
      [name |-> "bare", permissions |-> Permissions({}),
       always |-> FALSE, available |-> TRUE] }

SkillNames == {s.name : s \in SkillCatalogue}

\* the lists list_skills returns: skills of different names
SkillLists ==
    {l \in UNION {[1..n -> SkillCatalogue] : n \in 0..MaxSkills} :
        \A i, j \in 1..Len(l) : i # j => l[i].name # l[j].name}

\* the names a registered tool may have and the lists a caller of the
\* registry may pass
ToolNames == {"read_file", "exec_cmd", "web_fetch"}
CallerAllowedLists == SUBSET {"read_file", "exec_cmd", ALLOW_ALL_MARKER}

\* the inputs before any call
PolicyInputs(skill_list, approved_set, registered) ==
    [skills |-> skill_list, approved |-> approved_set,
     registered |-> registered, stage |-> "inputs", by |-> "none",
     allowed |-> {}, defs |-> {}]

\* ContextBuilder::get_allowed_tools called at the start of a turn
GetAllowedTools ==
    /\ policy.stage = "inputs"
    /\ policy' = [policy EXCEPT
                     !.allowed = get_allowed_tools(policy.skills, policy.approved),
                     !.by = "get_allowed_tools",
                     !.stage = "allowed"]
    /\ UNCHANGED nonPolicyVars

\* a caller of the registry with a list of its own
CallerAllows(list) ==
    /\ policy.stage = "inputs"
    /\ policy' = [policy EXCEPT !.allowed = list, !.by = "caller",
                                !.stage = "allowed"]
    /\ UNCHANGED nonPolicyVars

\* ToolRegistry::list_definitions_for_permissions called with the list
ListDefinitions ==
    /\ policy.stage = "allowed"
    /\ policy' = [policy EXCEPT
                     !.defs = list_definitions_for_permissions(policy.registered,
                                                               policy.allowed),
                     !.stage = "listed"]
    /\ UNCHANGED nonPolicyVars

PolicyIdle == policy = PolicyInputs(<< >>, {}, {})

PolicyInit ==
    \E skill_list \in SkillLists, approved_set \in SUBSET SkillNames,
       registered \in SUBSET ToolNames :
        policy = PolicyInputs(skill_list, approved_set, registered)

PolicyNext ==
    \/ GetAllowedTools
    \/ \E list \in CallerAllowedLists : CallerAllows(list)
    \/ ListDefinitions

(***************************************************************************)
(* is_private_ip  (tools/src/sandbox.rs)                                   *)
(***************************************************************************)
\* IpAddr: the four octets of a V4 address or the eight segments of a V6
V4(a, b, c, d) == [family |-> "v4", parts |-> <<a, b, c, d>>]
V6(segments) == [family |-> "v6", parts |-> segments]

\* x & mask for a mask that keeps the bits from 2^low up
high_bits(x, low) == (x \div low) * low

Ipv4Addr_is_loopback(o) == o[1] = 127
Ipv4Addr_is_private(o) ==
    \/ o[1] = 10
    \/ o[1] = 172 /\ o[2] >= 16 /\ o[2] <= 31
    \/ o[1] = 192 /\ o[2] = 168
Ipv4Addr_is_link_local(o) == o[1] = 169 /\ o[2] = 254
Ipv4Addr_is_broadcast(o) == o = <<255, 255, 255, 255>>
Ipv4Addr_is_unspecified(o) == o = <<0, 0, 0, 0>>
Ipv6Addr_is_loopback(s) == s = <<0, 0, 0, 0, 0, 0, 0, 1>>
Ipv6Addr_is_unspecified(s) == s = <<0, 0, 0, 0, 0, 0, 0, 0>>

is_private_ip(ip) ==
    IF ip.family = "v4"
    THEN LET o == ip.parts IN
         \/ Ipv4Addr_is_loopback(o)
         \/ Ipv4Addr_is_private(o)
         \/ Ipv4Addr_is_link_local(o)
         \/ Ipv4Addr_is_broadcast(o)
         \/ Ipv4Addr_is_unspecified(o)
         \/ o = <<169, 254, 169, 254>>
         \/ o[1] = 100 /\ high_bits(o[2], 64) = 64
    ELSE LET s == ip.parts IN
         \/ Ipv6Addr_is_loopback(s)
         \/ Ipv6Addr_is_unspecified(s)
         \/ high_bits(s[1], 512) = 64512
         \/ s[1] = 65152
         \/ s = <<0, 0, 0, 0, 0, 65535, 32512, 1>>

\* the addresses looked at: the edges of every range and addresses around
\* them
Ipv4Probes ==
    {V4(a, b, c, d) :
        a \in {0, 8, 9, 10, 11, 100, 126, 127, 128, 169, 172, 192, 255},
        b \in {0, 15, 16, 31, 32, 63, 64, 127, 128, 168, 254, 255},
        c \in {0, 169, 255},
        d \in {0, 1, 254, 255}}

Ipv6Probes ==
    {V6(<<s, 0, 0, 0, 0, 0, 0, t>>) :
        s \in {0, 8193, 64511, 64512, 65023, 65024, 65151, 65152, 65153,
               65168, 65215, 65216},
        t \in {0, 1}}
    \cup {V6(<<0, 0, 0, 0, 0, 65535, 32512, 1>>)}

\* the address of a URL's host, before and after it was looked at
Probe(ip) == [ip |-> ip, checked |-> FALSE, private |-> FALSE]

CheckIp ==
    /\ ~ip_check.checked
    /\ ip_check' = [ip_check EXCEPT !.checked = TRUE,
                              !.private = is_private_ip(ip_check.ip)]
    /\ UNCHANGED nonIpVars

ProbeIdle == ip_check = Probe(V4(0, 0, 0, 0))

ProbeInit == \E ip \in Ipv4Probes \cup Ipv6Probes : ip_check = Probe(ip)

ProbeNext == CheckIp

(***************************************************************************)
(* validate_path  (tools/src/sandbox.rs)                                   *)
(***************************************************************************)
\* bound of the path model: the symbolic links followed in one resolution
MaxSymlinkHops == 4

\* a path is the sequence of its components below the root; an entry of the
\* file system is a directory, a file or a symbolic link with its target
Dir == [kind |-> "dir", target |-> << >>]
File == [kind |-> "file", target |-> << >>]
Symlink(target) == [kind |-> "symlink", target |-> target]

PathOk(path) == [ok |-> TRUE, path |-> path, error |-> "none"]
PathErr(error) == [ok |-> FALSE, path |-> << >>, error |-> error]

all_but_last(path) == SubSeq(path, 1, Len(path) - 1)
last_of(path) == path[Len(path)]

\* Path::starts_with: by whole components
starts_with(path, base) ==
    /\ Len(base) <= Len(path)
    /\ SubSeq(path, 1, Len(base)) = base

\* fs::canonicalize: every symbolic link and every ".." resolved; an error
\* when a component does not exist, when a file is used as a directory or
\* when too many links are followed
RECURSIVE canonicalize_from(_, _, _, _)
canonicalize_from(fs, done, rest, hops) ==
    IF rest = << >> THEN PathOk(done)
    ELSE LET c == Head(rest)
             next == Append(done, c)
         IN  IF c = ".."
             THEN canonicalize_from(fs, IF done = << >> THEN << >> ELSE all_but_last(done),
                                    Tail(rest), hops)
             ELSE IF next \notin DOMAIN fs THEN PathErr("not found")
             ELSE IF fs[next].kind = "symlink"
             THEN IF hops = 0 THEN PathErr("too many links")
                  ELSE canonicalize_from(fs, << >>, fs[next].target \o Tail(rest),
                                         hops - 1)
             ELSE IF fs[next].kind = "file" /\ Tail(rest) # << >>
             THEN PathErr("not a directory")
             ELSE canonicalize_from(fs, next, Tail(rest), hops)

canonicalize(fs, path) == canonicalize_from(fs, << >>, path, MaxSymlinkHops)

\* Path::exists follows symbolic links: a link whose target is missing does
\* not exist
path_exists(fs, path) == canonicalize(fs, path).ok

\* fs::symlink_metadata(path).file_type().is_symlink(): the last component
\* itself is a link
is_symlink(fs, path) ==
    /\ path # << >>
    /\ last_of(path) # ".."
    /\ LET dir == canonicalize(fs, all_but_last(path)) IN
       /\ dir.ok
       /\ Append(dir.path, last_of(path)) \in DOMAIN fs
       /\ fs[Append(dir.path, last_of(path))].kind = "symlink"

\* the walk up to the first ancestor that exists: file_name is None for a
\* path that ends in ".." and for the root
RECURSIVE existing_ancestor(_, _, _)
existing_ancestor(fs, path, remaining_parts) ==
    IF path_exists(fs, path)
    THEN [ok |-> TRUE, path |-> path, parts |-> remaining_parts, error |-> "none"]
    ELSE IF path = << >> \/ last_of(path) = ".."
    THEN [ok |-> FALSE, path |-> << >>, parts |-> << >>,
          error |-> "Invalid path: cannot resolve ancestry"]
    ELSE existing_ancestor(fs, all_but_last(path),
                           <<last_of(path)>> \o remaining_parts)

\* the branch of validate_path for a path that does not exist
validate_missing(fs, workspace_canonical, absolute) ==
    LET found == existing_ancestor(fs, absolute, << >>) IN
    IF ~found.ok THEN PathErr(found.error)
    ELSE LET ancestor_canonical == canonicalize(fs, found.path) IN
         IF ~ancestor_canonical.ok THEN PathErr("Failed to resolve ancestor")
         ELSE IF ~starts_with(ancestor_canonical.path, workspace_canonical)
         THEN PathErr("Access denied: outside workspace")
         ELSE IF \E i \in 1..Len(found.parts) : found.parts[i] = ".."
         THEN PathErr("Path traversal ('..') is not allowed")
         ELSE PathOk(ancestor_canonical.path \o found.parts)

\* a requested path: absolute or relative, with its components
Requested(absolute, parts) == [absolute |-> absolute, parts |-> parts]

validate_path(fs, workspace, requested) ==
    LET absolute == IF requested.absolute THEN requested.parts
                    ELSE workspace \o requested.parts
        workspace_canonical == canonicalize(fs, workspace)
    IN  IF ~workspace_canonical.ok THEN PathErr("Failed to resolve workspace")
        ELSE IF path_exists(fs, absolute)
        THEN LET resolved == canonicalize(fs, absolute) IN
             IF ~starts_with(resolved.path, workspace_canonical.path)
             THEN IF is_symlink(fs, absolute)
                  THEN PathErr("Access denied: symlink points outside workspace")
                  ELSE PathErr("Access denied: outside workspace")
             ELSE PathOk(resolved.path)
        ELSE validate_missing(fs, workspace_canonical.path, absolute)

\* the file systems looked at: a workspace /ws that /home links to, a
\* directory /etc outside of it, and any of four links inside the workspace
BaseEntries ==
    { <<"ws">>, <<"ws", "notes.txt">>, <<"ws", "sub">>, <<"etc">>,
      <<"etc", "passwd">>, <<"home">> }
LinkEntries ==
    { <<"ws", "in">>, <<"ws", "out">>, <<"ws", "dangling">>, <<"ws", "outdir">> }

EntryAt(path) ==
    CASE path = <<"ws", "notes.txt">> -> File
      [] path = <<"etc", "passwd">> -> File
      [] path = <<"home">> -> Symlink(<<"ws">>)
      [] path = <<"ws", "in">> -> Symlink(<<"ws", "notes.txt">>)
      [] path = <<"ws", "out">> -> Symlink(<<"etc", "passwd">>)
      [] path = <<"ws", "dangling">> -> Symlink(<<"etc", "new">>)
      [] path = <<"ws", "outdir">> -> Symlink(<<"etc">>)
      [] OTHER -> Dir

FileSystems ==
    { [path \in BaseEntries \cup links |-> EntryAt(path)] : links \in SUBSET LinkEntries }

Workspaces == { <<"ws">>, <<"home">> }

RequestedPaths ==
    { Requested(FALSE, <<"notes.txt">>),
      Requested(FALSE, <<"a", "b", "c.txt">>),
      Requested(FALSE, <<"..", "etc", "passwd">>),
      Requested(FALSE, <<"sub", "..", "notes.txt">>),
      Requested(FALSE, <<"sub", "..", "..", "etc", "passwd">>),
      Requested(FALSE, <<"missing", "..", "..", "etc", "new">>),
      Requested(FALSE, <<"..", "etc", "new">>),
      Requested(FALSE, <<"in">>),
      Requested(FALSE, <<"out">>),
      Requested(FALSE, <<"dangling">>),
      Requested(FALSE, <<"outdir", "passwd">>),
      Requested(FALSE, <<"outdir", "new">>),
      Requested(TRUE, <<"etc", "passwd">>),
      Requested(TRUE, <<"etc", "new">>),
      Requested(TRUE, <<"ws", "notes.txt">>),
      Requested(TRUE, <<"ws", "new.txt">>),
      Requested(TRUE, <<"home", "notes.txt">>) }

SandboxCall(fs, workspace, requested) ==
    [fs |-> fs, workspace |-> workspace, requested |-> requested,
     validated |-> FALSE, result |-> PathErr("none")]

\* a file tool validates the path of its arguments
ValidatePath ==
    /\ ~sandbox.validated
    /\ sandbox' = [sandbox EXCEPT
                      !.validated = TRUE,
                      !.result = validate_path(sandbox.fs, sandbox.workspace,
                                               sandbox.requested)]
    /\ UNCHANGED nonSandboxVars

SandboxIdle ==
    sandbox = SandboxCall([path \in BaseEntries |-> EntryAt(path)], <<"ws">>,
                          Requested(FALSE, <<"notes.txt">>))

SandboxInit ==
    \E fs \in FileSystems, workspace \in Workspaces, requested \in RequestedPaths :
        sandbox = SandboxCall(fs, workspace, requested)

SandboxNext == ValidatePath

(***************************************************************************)
(* The size of the dedupe cache  (server/src/gateway.rs, cli/src/main.rs)  *)
(***************************************************************************)
\* bound of the overflow model: the keys inserted into the cache
MaxFill == 131

DEDUPE_CLAMP_MIN == 128
DEDUPE_CLAMP_MAX == 20000

\* runtime.dedupe_max_entries as the configuration file gives it, or not
Unset == [some |-> FALSE, value |-> 0]
SetTo(v) == [some |-> TRUE, value |-> v]

clamp(v, lo, hi) == IF v < lo THEN lo ELSE IF v > hi THEN hi ELSE v

\* GatewayRuntimeConfig.dedupe_max_entries as the program builds it
runtime_dedupe_max_entries(configured) ==
    clamp(IF configured.some THEN configured.value ELSE DEDUPE_MAX_ENTRIES,
          DEDUPE_CLAMP_MIN, DEDUPE_CLAMP_MAX)

ConfiguredMaxEntries == {Unset, SetTo(1), SetTo(128), SetTo(129)}

\* the key of the n-th message id
MessageKey(n) == <<"whatsapp", ":", ToString(n)>>

Overflow_new(configured) ==
    [dedupe_max_entries |-> runtime_dedupe_max_entries(configured),
     cache |-> DedupeCache_default, now_secs |-> StartTime,
     inserted |-> 0, fresh |-> 0, seen |-> FALSE,
     key |-> MessageKey(0)]

\* a webhook calls dedupe_seen with the key of a message
OverflowCall(n) ==
    /\ cache_fill.inserted < MaxFill
    /\ LET result == dedupe_seen(cache_fill.cache, MessageKey(n), DEDUPE_TTL_SECS,
                                 cache_fill.now_secs, cache_fill.dedupe_max_entries)
       IN  cache_fill' = [cache_fill EXCEPT
                            !.cache = result.cache,
                            !.seen = result.seen,
                            !.key = MessageKey(n),
                            !.inserted = IF result.seen THEN @ ELSE @ + 1,
                            !.fresh = IF n > @ THEN n ELSE @]
    /\ UNCHANGED nonFillVars

\* a message that was not seen before
FreshCall == OverflowCall(cache_fill.fresh + 1)

\* the first message delivered again
RepeatCall ==
    /\ cache_fill.fresh > 0
    /\ OverflowCall(1)

\* the TTL passes, once, after the first messages
FillClock ==
    /\ cache_fill.now_secs = StartTime
    /\ cache_fill.fresh \in 1..2
    /\ cache_fill' = [cache_fill EXCEPT !.now_secs = @ + DEDUPE_TTL_SECS + 1]
    /\ UNCHANGED nonFillVars

FillIdle == cache_fill = Overflow_new(Unset)

FillInit == \E configured \in ConfiguredMaxEntries : cache_fill = Overflow_new(configured)

FillNext == FreshCall \/ RepeatCall \/ FillClock

(***************************************************************************)
(* ChannelAdapter::start  (slack/src/lib.rs, teams/src/lib.rs)             *)
(***************************************************************************)
\* bounds of the adapter's receive loop: the largest max_inflight
\* configured and the number of events that arrive
MaxInflight == 2
MaxArrivals == 3

\* SlackAdapter::new, TeamsAdapter::new: at least one send at a time
adapter_max_inflight(max_inflight) == max_of(max_inflight, 1)

\* the session keys of the OutboundMessages that arrive
OutboundKeys ==
    {<<"slack", ":", "C1", ":", "ts1">>, <<"slack", ":">>,
     <<"slackbot", ":", "C1">>, <<"teams", ":", "general">>}

\* the events that arrive on the general queue
ArrivingEvents ==
    {Event("OutboundMessage", [session_key |-> k, content |-> <<"reply">>]) :
         k \in OutboundKeys}
    \cup {Event("InboundMessage",
                [session_key |-> <<"slack", ":", "C1">>, content |-> <<"hello">>])}

\* msg.session_key.starts_with("slack:"), starts_with("teams:")
has_prefix(session_key, name) == starts_with(chars(session_key), chars(<<name, ":">>))

\* the Slack adapter's target: the part of the key between the prefix and
\* the next colon when it is not empty, the default channel otherwise
slack_channel(session_key, default_channel) ==
    IF Len(session_key) >= 3 /\ session_key[3] # ":"
    THEN Some(session_key[3])
    ELSE default_channel

\* the guards of the receive loop before the permit: the event is an
\* OutboundMessage with the adapter's prefix, and for Slack a target
\* channel is known
wants_permit(a, event) ==
    /\ event.kind = "OutboundMessage"
    /\ has_prefix(event.message.session_key, a.channel)
    /\ a.channel = "slack" =>
           slack_channel(event.message.session_key, a.default_channel).some

\* the states of a spawned send: the POST of an attempt, the sleep after a
\* failed attempt, and no task at all
NoSend == [phase |-> "free", attempt |-> 0]
Posting(n) == [phase |-> "post", attempt |-> n]
Sleeping(n) == [phase |-> "sleep", attempt |-> n]

SendSlots == 1..MaxArrivals
FreeSlots(a) == {i \in SendSlots : a.sends[i] = NoSend}
InFlight(a) == SendSlots \ FreeSlots(a)

\* a variant that spawns the send without keeping the permit
start_send_unmetered(a, session_key) ==
    LET slot == CHOOSE i \in FreeSlots(a) : \A j \in FreeSlots(a) : i <= j
    IN  [a EXCEPT !.sends[slot] = Posting(1),
                  !.granted = @ \cup {session_key},
                  !.pc = "recv"]

\* acquire_owned returned a permit: the send is spawned and owns the
\* permit until it ends
start_send(a, session_key) ==
    LET slot == CHOOSE i \in FreeSlots(a) : \A j \in FreeSlots(a) : i <= j
    IN  [a EXCEPT !.permits = @ - 1,
                  !.sends[slot] = Posting(1),
                  !.granted = @ \cup {session_key},
                  !.pc = "recv"]

\* the spawned task ends: _permit is dropped
end_send(a, slot) ==
    [a EXCEPT !.permits = @ + 1, !.sends[slot] = NoSend]

\* the adapter after start: the semaphore holds max_inflight permits and
\* the task has subscribed to the general queue
Outflow_new(name, default_channel, max_inflight) ==
    [channel |-> name, default_channel |-> default_channel,
     max_inflight |-> adapter_max_inflight(max_inflight),
     permits |-> adapter_max_inflight(max_inflight),
     tx |-> channel(BusCapacity), pos |-> 0,
     pc |-> "recv", state |-> "running", cur |-> << >>,
     sends |-> [i \in SendSlots |-> NoSend],
     granted |-> {}]

\* an event is published on the general queue
OutboundArrives ==
    /\ ~outflow.tx.closed
    /\ Len(outflow.tx.log) < MaxArrivals
    /\ \E event \in ArrivingEvents :
           outflow' = [outflow EXCEPT !.tx = send(@, event)]
    /\ UNCHANGED nonOutflowVars

\* every sender of the general queue is dropped
OutflowDrop ==
    /\ ~outflow.tx.closed
    /\ outflow' = [outflow EXCEPT !.tx.closed = TRUE]
    /\ UNCHANGED nonOutflowVars

\* one pass of the receive loop: an event that wants a permit goes on to
\* acquire_owned, every other event is passed over, an error is followed
\* by a sleep of one second
LoopRecv ==
    /\ outflow.pc = "recv"
    /\ LET r == recv(outflow.tx, outflow.pos)
       IN  /\ r.result # "Pending"
           /\ outflow' =
                IF r.result = "Ok"
                THEN IF wants_permit(outflow, r.value)
                     THEN [outflow EXCEPT !.pos = r.pos, !.pc = "acquire",
                                          !.cur = r.value.message.session_key]
                     ELSE [outflow EXCEPT !.pos = r.pos]
                ELSE [outflow EXCEPT !.pos = r.pos, !.pc = "sleep"]
    /\ UNCHANGED nonOutflowVars

\* the sleep after an error ends and the loop calls recv again
LoopWake ==
    /\ outflow.pc = "sleep"
    /\ outflow' = [outflow EXCEPT !.pc = "recv"]
    /\ UNCHANGED nonOutflowVars

\* acquire_owned returns when a permit is free
LoopAcquire ==
    /\ outflow.pc = "acquire"
    /\ outflow.permits > 0
    /\ outflow' = [start_send(outflow, outflow.cur) EXCEPT !.cur = << >>]
    /\ UNCHANGED nonOutflowVars

\* the POST of a spawned send is answered: a delivery ends the task, a
\* failure is followed by the sleep
SendAnswered(slot) ==
    /\ outflow.sends[slot].phase = "post"
    /\ \E ok \in BOOLEAN :
           outflow' = IF ok THEN end_send(outflow, slot)
                      ELSE [outflow EXCEPT !.sends[slot] =
                                Sleeping(outflow.sends[slot].attempt)]
    /\ UNCHANGED nonOutflowVars

\* the sleep of a spawned send ends: the next attempt, or the error after
\* the third
SendWakes(slot) ==
    /\ outflow.sends[slot].phase = "sleep"
    /\ outflow' = IF outflow.sends[slot].attempt < RETRY_ATTEMPTS
                  THEN [outflow EXCEPT !.sends[slot] =
                            Posting(outflow.sends[slot].attempt + 1)]
                  ELSE end_send(outflow, slot)
    /\ UNCHANGED nonOutflowVars

OutflowIdle == outflow = Outflow_new("slack", None, 1)

\* the adapters as they are configured
OutflowInit ==
    \E max_inflight \in {0, MaxInflight} :
        \/ \E default_channel \in {None, Some("C0")} :
               outflow = Outflow_new("slack", default_channel, max_inflight)
        \/ outflow = Outflow_new("teams", None, max_inflight)

OutflowNext ==
    \/ OutboundArrives
    \/ OutflowDrop
    \/ LoopRecv
    \/ LoopWake
    \/ LoopAcquire
    \/ \E slot \in SendSlots : SendAnswered(slot)
    \/ \E slot \in SendSlots : SendWakes(slot)

(***************************************************************************)
(* RollingMinuteCounter  (server/src/gateway.rs)                           *)
(***************************************************************************)
ROLLING_WINDOW_MINUTES == 60
MS_PER_MINUTE == 60000

\* bounds of the counter model: the observations made and the steps the
\* clock makes
MaxObservations == 2
MaxClockSteps == 3

\* the minute the clock of a started system shows first
RollingStartMinute == 1000

\* RollingMinuteCounter::default
RollingMinuteCounter_default ==
    [buckets |-> [i \in 0..(ROLLING_WINDOW_MINUTES - 1) |-> 0],
     cursor |-> 0, last_minute |-> 0]

minute_index(epoch_ms) == epoch_ms \div MS_PER_MINUTE

\* the for loop of advance_to: the cursor enters n buckets and clears each
RECURSIVE enter_buckets(_, _)
enter_buckets(counter, n) ==
    IF n = 0 THEN counter
    ELSE LET next == (counter.cursor + 1) % ROLLING_WINDOW_MINUTES
         IN  enter_buckets([counter EXCEPT !.cursor = next,
                                           !.buckets[next] = 0], n - 1)

advance_to(counter, now_ms) ==
    LET now_minute == minute_index(now_ms)
        delta == now_minute - counter.last_minute
    IN  IF counter.last_minute = 0
        THEN [counter EXCEPT !.last_minute = now_minute]
        ELSE IF delta <= 0 THEN counter
        ELSE IF delta >= ROLLING_WINDOW_MINUTES
        THEN [RollingMinuteCounter_default EXCEPT !.last_minute = now_minute]
        ELSE [enter_buckets(counter, delta) EXCEPT !.last_minute = now_minute]

observe(counter, now_ms) ==
    LET advanced == advance_to(counter, now_ms)
    IN  [advanced EXCEPT !.buckets[advanced.cursor] = @ + 1]

\* the sum of the `taken` buckets that end at the cursor
RECURSIVE sum_buckets(_, _)
sum_buckets(counter, taken) ==
    IF taken = 0 THEN 0
    ELSE counter.buckets[(counter.cursor + ROLLING_WINDOW_MINUTES - (taken - 1))
                             % ROLLING_WINDOW_MINUTES]
         + sum_buckets(counter, taken - 1)

\* sum_recent_minutes: the counter as the call leaves it, and the sum
sum_recent_minutes(counter, now_ms, minutes) ==
    LET advanced == advance_to(counter, now_ms)
        take == clamp(minutes, 1, ROLLING_WINDOW_MINUTES)
    IN  [counter |-> advanced, sum |-> sum_buckets(advanced, take)]

\* the clock: a minute and the milliseconds into it
epoch_ms(clock) == clock.minute * MS_PER_MINUTE + clock.ms

\* the counter of a channel, the clock, the timestamps observed so far and
\* the call made last
Rolling_new(start_minute) ==
    [counter |-> RollingMinuteCounter_default,
     clock |-> [minute |-> start_minute, ms |-> 0],
     steps |-> 0,
     observed |-> << >>, last_call |-> "none", minutes |-> 0, sum |-> 0]

\* an event of the channel is counted
RollingObserve ==
    /\ Len(rolling.observed) < MaxObservations
    /\ rolling' = [rolling EXCEPT
                       !.counter = observe(@, epoch_ms(rolling.clock)),
                       !.observed = Append(@, epoch_ms(rolling.clock)),
                       !.last_call = "observe"]
    /\ UNCHANGED nonRollingVars

\* the health endpoint sums the window
RollingSum(minutes) ==
    /\ LET r == sum_recent_minutes(rolling.counter, epoch_ms(rolling.clock), minutes)
       IN  rolling' = [rolling EXCEPT !.counter = r.counter, !.sum = r.sum,
                                      !.minutes = minutes, !.last_call = "sum"]
    /\ UNCHANGED nonRollingVars

\* time passes within the minute
RollingMillis ==
    /\ rolling.clock.ms = 0
    /\ rolling' = [rolling EXCEPT !.clock.ms = MS_PER_MINUTE - 1,
                                  !.last_call = "none"]
    /\ UNCHANGED nonRollingVars

\* time passes: a minute, a minute short of the window, or the window
RollingMinutes(n) ==
    /\ rolling.steps < MaxClockSteps
    /\ rolling' = [rolling EXCEPT !.clock = [minute |-> @.minute + n, ms |-> 0],
                                  !.steps = @ + 1,
                                  !.last_call = "none"]
    /\ UNCHANGED nonRollingVars

RollingIdle == rolling = Rolling_new(RollingStartMinute)

\* the system starts with its clock set, or with a clock at the epoch
RollingInit ==
    \E start_minute \in {0, RollingStartMinute} :
        rolling = Rolling_new(start_minute)

RollingNext ==
    \/ RollingObserve
    \/ \E minutes \in {1, ROLLING_WINDOW_MINUTES} : RollingSum(minutes)
    \/ RollingMillis
    \/ \E n \in {1, ROLLING_WINDOW_MINUTES - 1, ROLLING_WINDOW_MINUTES} :
           RollingMinutes(n)

(***************************************************************************)
(* POST /api/message and the ids it hands out  (server/src/gateway.rs,     *)
(* core/src/types.rs)                                                      *)
(***************************************************************************)
\* bound of the model: the requests served
MaxApiCalls == 3

HTTP_INTERNAL_SERVER_ERROR == 500

\* Uuid::new_v4: the n-th id drawn by the process; no two draws are equal
Uuid_new_v4(drawn) == drawn + 1

\* Uuid::to_string
uuid_to_string(uuid) == <<"uuid-", ToString(uuid)>>

\* Message::new draws the id of the message
Message_with_id(channel_name, session_key, role, content, drawn) ==
    [id |-> Uuid_new_v4(drawn),
     message |-> Message_new(channel_name, session_key, role, content)]

\* the answer of the handler: the status, the body when there is one and
\* the message given to the bus when one was
ApiAnswer(status, body, published) ==
    [status |-> status, body |-> body, published |-> published]
NoBody == [id |-> << >>, status |-> ""]
NotPublished == [id |-> 0, message |-> NoMessage]

\* send_message: the auth check, the id of the response, the message, the
\* publish and the response
send_message_ids(auth_token, authorization, req, drawn, receivers) ==
    IF ~check_auth(auth_token, authorization)
    THEN [drawn |-> drawn,
          answer |-> ApiAnswer(HTTP_UNAUTHORIZED, NoBody, NotPublished)]
    ELSE LET msg_id == Uuid_new_v4(drawn)
             made == Message_with_id("http", req.session_key, "user",
                                     req.message, drawn + 1)
             sent == [made EXCEPT !.message = with_sender(@, "http_client")]
         IN  IF ~receivers
             THEN [drawn |-> drawn + 2,
                   answer |-> ApiAnswer(HTTP_INTERNAL_SERVER_ERROR, NoBody, NotPublished)]
             ELSE [drawn |-> drawn + 2,
                   answer |-> ApiAnswer(HTTP_OK,
                                        [id |-> uuid_to_string(msg_id),
                                         status |-> "accepted"],
                                        sent)]

\* the bodies of the requests
ApiMessageRequests ==
    {[message |-> <<"hello">>, session_key |-> k] :
         k \in {<<"http", ":", "u1">>, <<"http", ":", "u2">>}}

\* the gateway with its token, the ids drawn so far, whether the general
\* queue has a receiver, and the answers given
Api_new ==
    [auth_token |-> Some("t"), drawn |-> 0, receivers |-> TRUE,
     answers |-> << >>]

\* POST /api/message
ApiPostMessage(authorization, req) ==
    /\ Len(api.answers) < MaxApiCalls
    /\ LET r == send_message_ids(api.auth_token, authorization, req,
                                 api.drawn, api.receivers)
       IN  api' = [api EXCEPT !.drawn = r.drawn,
                              !.answers = Append(@, r.answer)]
    /\ UNCHANGED nonApiVars

\* the last receiver of the general queue goes away, or one comes
ApiReceivers ==
    /\ api' = [api EXCEPT !.receivers = ~@]
    /\ UNCHANGED nonApiVars

ApiIdle == api = Api_new

\* the gateway with and without a token
ApiInit ==
    \E token \in {None, Some("t")} :
        api = [Api_new EXCEPT !.auth_token = token]

ApiNext ==
    \/ \E authorization \in {AbsentHeader, <<"Bearer ", "t">>},
          req \in ApiMessageRequests : ApiPostMessage(authorization, req)
    \/ ApiReceivers

ExtrasIdle ==
    CronIdle /\ TasksIdle /\ PolicyIdle /\ ProbeIdle /\ SandboxIdle /\ FillIdle /\ OutflowIdle /\ RollingIdle /\ ApiIdle

ComponentsIdle == BusIdle /\ ProviderIdle /\ AdapterIdle /\ ExtrasIdle

Next ==
    \/ \E k \in SessionKeys : ReceiveInbound(k)
    \/ LoopIterate
    \/ MaxIterationsReached
    \/ ChatFailsRetry
    \/ ChatFailsLast
    \/ ChatReturnsToolCalls
    \/ HandleToolCall
    \/ ChatReturnsFinal
    \/ SummaryChatReturns
    \/ SummaryMarked
    \/ SummaryTrimmed
    \/ SummaryChatFailsLast

Init == AgentInit /\ GatewayIdle /\ DedupeIdle /\ ComponentsIdle

Spec == Init /\ [][Next]_vars

\* the agent loop as the gateway specification holds it: waiting for a message
AgentIdle ==
    /\ AgentFresh
    /\ sessions = [k \in SessionKeys |-> Session_default]
    /\ approved_skills = {}
    /\ provider_script = << >>
    /\ provider_usage = TRUE

GatewaySpecInit == AgentIdle /\ GatewayInit /\ DedupeIdle /\ ComponentsIdle

GatewaySpec == GatewaySpecInit /\ [][GatewayNext]_vars

\* the gateway without a token or webhook secrets, serving over time
DedupeSpecInit == AgentIdle /\ GatewayIdle /\ DedupeIdle /\ ComponentsIdle

DedupeSpec == DedupeSpecInit /\ [][DedupeNext]_vars

\* the bus with its receiving tasks
BusSpecInit == AgentIdle /\ GatewayIdle /\ DedupeIdle /\ ComponentsIdle

BusSpec == BusSpecInit /\ [][BusNext]_vars

AgentBusSpec == BusSpecInit /\ [][AgentBusNext]_vars

\* a FailoverProvider serving one chat call
FailoverSpecInit ==
    /\ AgentIdle /\ GatewayIdle /\ DedupeIdle /\ BusIdle /\ AdapterIdle
    /\ ExtrasIdle
    /\ FailoverInit /\ ReliableIdle

FailoverSpec == FailoverSpecInit /\ [][FailoverNext]_vars

\* a ReliableProvider serving one chat call
ReliableSpecInit ==
    /\ AgentIdle /\ GatewayIdle /\ DedupeIdle /\ BusIdle /\ AdapterIdle
    /\ ExtrasIdle
    /\ FailoverIdle /\ ReliableInit

ReliableSpec == ReliableSpecInit /\ [][ReliableNext]_vars

\* an adapter making one outbound send
AdapterSpecInit ==
    /\ AgentIdle /\ GatewayIdle /\ DedupeIdle /\ BusIdle /\ ProviderIdle
    /\ ExtrasIdle
    /\ AdapterInit

AdapterSpec == AdapterSpecInit /\ [][AdapterNext]_vars

\* the cron service with the bus it publishes on
CronSpecInit == AgentIdle /\ GatewayIdle /\ DedupeIdle /\ ComponentsIdle

CronSpec == CronSpecInit /\ [][CronNext]_vars

\* the publishers of inbound messages with the bus and the agent loop
PublishSpecInit == AgentIdle /\ GatewayIdle /\ DedupeIdle /\ ComponentsIdle

PublishSpec == PublishSpecInit /\ [][PublishNext]_vars

\* the tasks of the program taking their locks and making their calls
LockSpecInit == AgentIdle /\ GatewayIdle /\ DedupeIdle /\ ComponentsIdle

LockSpec == LockSpecInit /\ [][LockNext]_vars

\* get_allowed_tools and the registry's filter on every input
PolicySpecInit ==
    /\ AgentIdle /\ GatewayIdle /\ DedupeIdle /\ BusIdle /\ ProviderIdle
    /\ AdapterIdle /\ CronIdle /\ TasksIdle /\ PolicyInit /\ ProbeIdle
    /\ SandboxIdle /\ FillIdle /\ OutflowIdle /\ RollingIdle /\ ApiIdle

PolicySpec == PolicySpecInit /\ [][PolicyNext]_vars

\* is_private_ip on every address looked at
ProbeSpecInit ==
    /\ AgentIdle /\ GatewayIdle /\ DedupeIdle /\ BusIdle /\ ProviderIdle
    /\ AdapterIdle /\ CronIdle /\ TasksIdle /\ PolicyIdle /\ ProbeInit
    /\ SandboxIdle /\ FillIdle /\ OutflowIdle /\ RollingIdle /\ ApiIdle

ProbeSpec == ProbeSpecInit /\ [][ProbeNext]_vars

\* validate_path on every file system and request looked at
SandboxSpecInit ==
    /\ AgentIdle /\ GatewayIdle /\ DedupeIdle /\ BusIdle /\ ProviderIdle
    /\ AdapterIdle /\ CronIdle /\ TasksIdle /\ PolicyIdle /\ ProbeIdle
    /\ SandboxInit /\ FillIdle /\ OutflowIdle /\ RollingIdle /\ ApiIdle

SandboxSpec == SandboxSpecInit /\ [][SandboxNext]_vars

\* the dedupe cache filled past its size
FillSpecInit ==
    /\ AgentIdle /\ GatewayIdle /\ DedupeIdle /\ BusIdle /\ ProviderIdle
    /\ AdapterIdle /\ CronIdle /\ TasksIdle /\ PolicyIdle /\ ProbeIdle
    /\ SandboxIdle /\ FillInit /\ OutflowIdle /\ RollingIdle /\ ApiIdle

FillSpec == FillSpecInit /\ [][FillNext]_vars

\* the receive loop of a channel adapter and the sends it spawns
OutflowSpecInit ==
    /\ AgentIdle /\ GatewayIdle /\ DedupeIdle /\ BusIdle /\ ProviderIdle
    /\ AdapterIdle /\ CronIdle /\ TasksIdle /\ PolicyIdle /\ ProbeIdle
    /\ SandboxIdle /\ FillIdle /\ OutflowInit /\ RollingIdle /\ ApiIdle

OutflowSpec == OutflowSpecInit /\ [][OutflowNext]_vars

\* the cron service started on a jobs file of an earlier run
StoredCronSpecInit ==
    /\ AgentIdle /\ GatewayIdle /\ DedupeIdle /\ BusIdle /\ ProviderIdle
    /\ AdapterIdle /\ CronLoaded /\ TasksIdle /\ PolicyIdle /\ ProbeIdle
    /\ SandboxIdle /\ FillIdle /\ OutflowIdle /\ RollingIdle /\ ApiIdle

StoredCronSpec == StoredCronSpecInit /\ [][StoredCronNext]_vars

\* the rolling counter of a channel under observations, sums and the clock
RollingSpecInit ==
    /\ AgentIdle /\ GatewayIdle /\ DedupeIdle /\ BusIdle /\ ProviderIdle
    /\ AdapterIdle /\ CronIdle /\ TasksIdle /\ PolicyIdle /\ ProbeIdle
    /\ SandboxIdle /\ FillIdle /\ OutflowIdle /\ RollingInit /\ ApiIdle

RollingSpec == RollingSpecInit /\ [][RollingNext]_vars

\* the cron loop and the subscribers of the bus starting up
StartupSpecInit ==
    /\ AgentIdle /\ GatewayIdle /\ DedupeIdle /\ BusCreated /\ ProviderIdle
    /\ AdapterIdle /\ CronLoaded /\ TasksIdle /\ PolicyIdle /\ ProbeIdle
    /\ SandboxIdle /\ FillIdle /\ OutflowIdle /\ RollingIdle /\ ApiIdle

StartupSpec == StartupSpecInit /\ [][StartupNext]_vars

\* POST /api/message and the ids of its answers
ApiSpecInit ==
    /\ AgentIdle /\ GatewayIdle /\ DedupeIdle /\ BusIdle /\ ProviderIdle
    /\ AdapterIdle /\ CronIdle /\ TasksIdle /\ PolicyIdle /\ ProbeIdle
    /\ SandboxIdle /\ FillIdle /\ OutflowIdle /\ RollingIdle /\ ApiInit

ApiSpec == ApiSpecInit /\ [][ApiNext]_vars

\* the runtime polls every task that is ready: the receive loop and the
\* spawned sends make their next step when they can
FairOutflowSpec ==
    /\ OutflowSpec
    /\ WF_vars(LoopRecv) /\ WF_vars(LoopWake) /\ WF_vars(LoopAcquire)
    /\ \A slot \in SendSlots :
           WF_vars(SendAnswered(slot)) /\ WF_vars(SendWakes(slot))

InboundSpec == BusSpecInit /\ [][InboundNext]_vars

\* the runtime polls every task that is ready: a pass of the agent loop
\* whose recv can return is eventually made
FairInboundSpec == InboundSpec /\ WF_vars(AgentRecv)

(***************************************************************************)
(* Properties of the agent loop, checked under Spec                        *)
(***************************************************************************)
\* a name is permitted by a list: listed, or the list holds "*"
NamePermitted(name, list) == name \in list \/ "*" \in list

LastMessage == current_messages[Len(current_messages)]

\* the messages the loop appended to the context built for the turn
LoopMessages ==
    [i \in 1..(Len(current_messages) - base_len) |->
        current_messages[base_len + i]]

\* the assistant messages of the turn that carried tool calls
ToolCallRounds ==
    Cardinality({i \in 1..Len(LoopMessages) :
                    /\ LoopMessages[i].role = "assistant"
                    /\ LoopMessages[i].content = ToolCallText})

\* the step that handles the next pending tool call
HandlesCall == pc = "tools" /\ pending # << >>

\* C1: a tool call whose name the turn's allowed-tools list does not permit
\* (the empty list permits none) never reaches execute: the step that
\* handles it appends the tool-role message "Error: Tool '<name>' is not
\* authorized by any active skill.", publishes nothing, and the turn goes on
\* with the next tool call or, after the last one, with the loop.
C1_DefaultDeny ==
    [][ (HandlesCall /\ ~NamePermitted(Head(pending).name, allowed_tools))
        => /\ ~is_tool_allowed(Head(pending).name, {})
           /\ executed' = executed
           /\ current_messages' =
                Append(current_messages,
                       [channel |-> "tool", session_key |-> msg.session_key,
                        sender_id |-> "tool", role |-> "tool",
                        content |-> <<"Error: Tool '", Head(pending).name,
                                      "' is not authorized by any active skill.">>,
                        metadata |-> {}])
           /\ bus_events' = bus_events
           /\ pending' = Tail(pending)
           /\ pc' = IF Tail(pending) = << >> THEN "loop" ELSE "tools" ]_vars

\* a blocked call was answered, nothing was executed, and the loop is
\* making its next LLM call
C1_Witness ==
    /\ pc = "llm"
    /\ iteration = 2
    /\ executed = << >>
    /\ \E i \in 1..Len(LoopMessages) :
          /\ LoopMessages[i].role = "tool"
          /\ LoopMessages[i].content =
               <<"Error: Tool '", "exec_cmd",
                 "' is not authorized by any active skill.">>

\* the outbound events of the turn that carry the given text
OutboundWith(text) ==
    {i \in 1..Len(bus_events) :
        /\ bus_events[i].type = "OutboundMessage"
        /\ bus_events[i].msg.content = text}

ProviderErrorOutbound ==
    [type |-> "OutboundMessage",
     msg |-> [channel |-> "agent", session_key |-> msg.session_key,
              sender_id |-> "assistant", role |-> "assistant",
              content |-> <<"I encountered an error communicating with the AI provider: ",
                            ProviderErrorText>>,
              metadata |-> {}]]

FinalOutbound ==
    [type |-> "OutboundMessage",
     msg |-> [channel |-> "agent", session_key |-> msg.session_key,
              sender_id |-> "assistant", role |-> "assistant",
              content |-> FinalText, metadata |-> {}]]

MaxIterationsOutbound ==
    [type |-> "OutboundMessage",
     msg |-> [channel |-> "agent", session_key |-> msg.session_key,
              sender_id |-> "assistant", role |-> "assistant",
              content |-> <<"I reached the maximum number of processing steps (",
                            "10",
                            "). My last response may be incomplete. Please try rephrasing your request.">>,
              metadata |-> {}]]

\* C3 as stated: in one turn the LLM is called at most MAX_ITERATIONS = 10
\* times, and at most MAX_ITERATIONS x LLM_RETRIES = 30 times counting every
\* retry attempt.
C3_AsStated ==
    /\ llm_calls <= MAX_ITERATIONS
    /\ llm_attempts <= MAX_ITERATIONS * LLM_RETRIES

\* C3 as amended: in one turn the loop makes at most MAX_ITERATIONS = 10 LLM
\* calls, one per iteration, and the summarization that follows the final
\* response makes at most one more: at most 11 calls, and at most
\* 11 x LLM_RETRIES = 33 attempts counting every retry.
C3_CallsBounded ==
    /\ iteration <= MAX_ITERATIONS
    /\ llm_calls <= iteration + 1
    /\ llm_calls > iteration =>
           pc \in {"summarize_llm", "summary_set", "summary_marked", "done"}
    /\ llm_calls <= MAX_ITERATIONS + 1
    /\ llm_attempts <= (MAX_ITERATIONS + 1) * LLM_RETRIES
    /\ llm_attempts <= llm_calls * LLM_RETRIES

\* a turn of ten loop calls and a summary call, each taking three attempts
C3_Witness ==
    /\ pc = "done"
    /\ iteration = MAX_ITERATIONS
    /\ llm_calls = MAX_ITERATIONS + 1
    /\ llm_attempts = (MAX_ITERATIONS + 1) * LLM_RETRIES

\* C4: once the provider has answered with tool calls on 10 iterations of a
\* turn, no 11th LLM call is made, and the turn ends having published
\* exactly one OutboundMessage: the max-iterations warning, on the inbound
\* message's session key.
C4_MaxIterations ==
    ToolCallRounds = 10
    => /\ pc \in {"tools", "loop", "done"}
       /\ iteration = 10
       /\ llm_calls = 10
       /\ pc # "done" => bus_events = << >>
       /\ pc = "done" => bus_events = << MaxIterationsOutbound >>

\* ten rounds of tool calls were answered and the turn is over
C4_Witness ==
    /\ ToolCallRounds = 10
    /\ pc = "done"
    /\ Len(bus_events) = 1
    /\ bus_events[1].msg.session_key = "slack:b"

\* C5 as stated: when an LLM call has failed on all LLM_RETRIES attempts, one
\* error OutboundMessage has been published on the inbound message's session
\* key and the turn is over.
C5_AsStated ==
    llm_failed # "none"
    => /\ pc = "done"
       /\ Cardinality(OutboundWith(ProviderErrorOutbound.msg.content)) = 1
       /\ bus_events[Len(bus_events)] = ProviderErrorOutbound

\* C5 as amended: when a call of the tool-calling loop fails on all
\* LLM_RETRIES = 3 attempts, the one thing the turn publishes is the error
\* OutboundMessage on the inbound message's session key; when the
\* summarization call fails on all attempts, nothing is published for it
\* (the final response is all the turn published). Either way the turn is
\* over: no LLM call, tool execution or context message follows.
C5_LlmFailureEndsTurn ==
    /\ [](llm_failed # "none" => pc = "done" /\ attempt = LLM_RETRIES - 1)
    /\ [](llm_failed = "loop" => bus_events = << ProviderErrorOutbound >>)
    /\ [](llm_failed = "summary" => bus_events = << FinalOutbound >>)
    /\ [][ llm_failed # "none"
           => UNCHANGED <<llm_calls, llm_attempts, executed, current_messages,
                          bus_events, sessions>> ]_vars

\* the third attempt of a loop call failed after a round of tool calls
C5_Witness ==
    /\ llm_failed = "loop"
    /\ iteration = 2
    /\ llm_attempts = 1 + LLM_RETRIES
    /\ bus_events = << ProviderErrorOutbound >>

\* the stored history of the turn's session, and its last n messages
History == sessions[msg.session_key].history

HistoryTail(n) ==
    IF Len(History) >= n
    THEN SubSeq(History, Len(History) - n + 1, Len(History))
    ELSE << >>

ContextTail(n) ==
    IF Len(current_messages) >= n
    THEN SubSeq(current_messages, Len(current_messages) - n + 1,
                Len(current_messages))
    ELSE << >>

RolesOf(messages) == [i \in 1..Len(messages) |-> messages[i].role]

\* C6: when the call being handled names a registered tool that the
\* allowed-tools list resolved at context-build time permits, and its
\* arguments are JSON, the loop invokes the tool's execute operation and the
\* tool-role message appended for the call carries the tool's result.
C6_AllowedToolExecuted ==
    [][ ( /\ HandlesCall
          /\ NamePermitted(Head(pending).name, allowed_tools)
          /\ Head(pending).name \in RegisteredTools
          /\ Head(pending).arguments = ValidArguments )
        => /\ executed' = Append(executed, Head(pending))
           /\ current_messages'[Len(current_messages')].role = "tool"
           /\ current_messages'[Len(current_messages')].content
                \in { <<"output of ", Head(pending).name>>,
                      <<"Error executing tool: ", "tool failed">> } ]_vars

\* the turn of C7: the provider returned one permitted tool call, then the
\* final text
OneCallThenFinal ==
    /\ pc = "done"
    /\ llm_failed # "loop"
    /\ iteration = 2
    /\ Len(response_calls) = 1
    /\ NamePermitted(response_calls[1].name, allowed_tools)

\* C7 as stated: after a turn in which the provider returns one permitted
\* tool call and then a final text, the stored history ends with: user
\* message, assistant message of the tool call, tool-result message, final
\* assistant message.
C7_AsStated ==
    OneCallThenFinal
    => /\ RolesOf(HistoryTail(4)) = <<"user", "assistant", "tool", "assistant">>
       /\ HistoryTail(4)[2].content = ToolCallText
       /\ HistoryTail(4)[4].content = FinalText

\* C7 as amended: after such a turn the stored history ends with the user
\* message and the final assistant message; the assistant message of the
\* tool call and the tool-result message are in the turn's context only,
\* which ends with them and the final assistant message.
C7_HistoryEnds ==
    OneCallThenFinal
    => /\ HistoryTail(2) =
            << InboundMessage(msg.session_key), FinalOutbound.msg >>
       /\ \A i \in 1..Len(History) :
             /\ History[i].role \in {"user", "assistant"}
             /\ History[i].content # ToolCallText
       /\ RolesOf(ContextTail(4)) = <<"user", "assistant", "tool", "assistant">>
       /\ ContextTail(4)[2].content = ToolCallText
       /\ ContextTail(4)[3].metadata = {<<"tool_call_id", response_calls[1].id>>}
       /\ ContextTail(4)[4].content = FinalText

\* such a turn on the new session: the history is the two messages
C7_Witness ==
    /\ OneCallThenFinal
    /\ msg.session_key = "http:a"
    /\ response_calls[1].name = "read_file"
    /\ Len(History) = 2

\* the call being handled passed the default-deny check and fails: the
\* tool is not registered, or its arguments are not JSON
HandlesFailingCall ==
    /\ HandlesCall
    /\ NamePermitted(Head(pending).name, allowed_tools)
    /\ \/ Head(pending).name \notin RegisteredTools
       \/ Head(pending).arguments # ValidArguments

\* the error text of the failure of a call
FailureText(tool_call) ==
    IF tool_call.name \notin RegisteredTools
    THEN <<"Tool not found: ", tool_call.name>>
    ELSE <<"Error parsing arguments: ", "expected value">>

\* C8: a tool failure is never fatal to the turn: the step that handles a
\* call whose tool is not registered or whose arguments fail to parse
\* appends the error text of that failure as a tool-role result message,
\* publishes nothing, and the turn goes on with the next tool call or, after
\* the last one, with the loop and its next LLM call.
C8_AsStated ==
    [][ HandlesFailingCall
        => /\ Len(current_messages') = Len(current_messages) + 1
           /\ current_messages'[Len(current_messages')].role = "tool"
           /\ current_messages'[Len(current_messages')].content
                = FailureText(Head(pending))
           /\ bus_events' = bus_events
           /\ llm_failed' = "none"
           /\ pc' = IF Tail(pending) = << >> THEN "loop" ELSE "tools" ]_vars

\* the calls of the response handled so far
Handled == Len(response_calls) - Len(pending)

\* while and after the calls of a response are handled, the context ends
\* with the assistant message of the response followed by one tool-role
\* message per handled call, in emission order, and the message of a call
\* that passed the default-deny check carries metadata tool_call_id equal to
\* the id of that call
C9_Answered ==
    (pc \in {"tools", "loop"} /\ iteration > 0)
    => /\ Handled \in 0..Len(response_calls)
       /\ pc = "loop" => Handled = Len(response_calls)
       /\ Len(current_messages) - Handled > base_len
       /\ current_messages[Len(current_messages) - Handled].role = "assistant"
       /\ \A j \in 1..Handled :
            LET m == current_messages[Len(current_messages) - Handled + j]
                c == response_calls[j]
            IN  /\ m.role = "tool"
                /\ \E k \in 1..Len(m.content) : m.content[k] = c.name
                /\ NamePermitted(c.name, allowed_tools)
                     => m.metadata = {<<"tool_call_id", c.id>>}

\* C9: the tool calls of one response are handled strictly one at a time
\* in the order the model emitted them: each step takes the first pending
\* call and appends one message, exactly one tool-role message per call is
\* in the context, in emission order, and each result message of an
\* executed call carries metadata tool_call_id equal to the id of the call
\* it answers.
C9_InOrder ==
    /\ []C9_Answered
    /\ [][ HandlesCall
           => /\ Len(current_messages') = Len(current_messages) + 1
              /\ pending' = Tail(pending) ]_vars

\* two different calls of one response were answered
C9_Witness ==
    /\ pc = "loop"
    /\ Len(response_calls) = 2
    /\ Handled = 2
    /\ response_calls[1].name = "web_search"
    /\ response_calls[2].name = "read_file"
    /\ NamePermitted("read_file", allowed_tools)
    /\ LastMessage.metadata = {<<"tool_call_id", "call_2">>}

\* C10: the session key is stable over a turn: every message the loop
\* appends to the context, and every message it publishes, carries the
\* inbound message's session key; the session store is read and written
\* under that key only, and the other session is left as it was.
C10_SessionKeyStable ==
    /\ \A i \in 1..Len(LoopMessages) :
          LoopMessages[i].session_key = msg.session_key
    /\ \A i \in 1..Len(bus_events) :
          bus_events[i].msg.session_key = msg.session_key
    /\ pc # "idle" => /\ msg.session_key \in SessionKeys
                      /\ session_reads = {msg.session_key}
                      /\ session_writes = {msg.session_key}
    /\ \A k \in SessionKeys \ {msg.session_key} :
          sessions[k] = IF k = "slack:b"
                        THEN [history |-> StoredHistory(k, PrefillLen),
                              summary |-> NoSummary]
                        ELSE Session_default

\* a turn on "http:a" with a tool round, a final response and both stored
C10_Witness ==
    /\ pc = "done"
    /\ msg.session_key = "http:a"
    /\ Len(LoopMessages) >= 3
    /\ bus_events = << FinalOutbound >>
    /\ Len(sessions["http:a"].history) = 2

(***************************************************************************)
(* Properties of the gateway, checked under GatewaySpec                    *)
(***************************************************************************)
\* the request carried Authorization exactly "Bearer <token>"
CarriedBearer(req) == req.authorization = <<"Bearer ", gw_token.value>>

\* the request passed the signature verification of its webhook
PassedSignature(req) ==
    \/ /\ req.endpoint = "whatsapp_webhook"
       /\ gw_whatsapp_secret.some
       /\ verify_whatsapp_signature(req.signature, req.body,
                                    gw_whatsapp_secret.value)
    \/ /\ req.endpoint = "slack_inbound"
       /\ gw_slack_secret.some
       /\ verify_slack_signature(req.signature, req.ts, req.body,
                                 gw_slack_secret.value, gw_now)

\* C2: when an auth token is configured, a request to a mutating endpoint
\* (the WhatsApp and Slack webhooks included) that got an InboundMessage
\* published carried Authorization exactly "Bearer <token>" or passed its
\* webhook's signature verification; any other request published nothing.
C2_AsStated ==
    (gw_token.some /\ gw_request # NoRequest)
    => \/ CarriedBearer(gw_request)
       \/ PassedSignature(gw_request)
       \/ gw_published = << >>

(***************************************************************************)
(* Properties of the dedupe cache, checked under DedupeSpec                *)
(***************************************************************************)
\* the WhatsApp webhook POSTs served, by their place in wh_log
WhatsappPosts ==
    {i \in 1..Len(wh_log) : wh_log[i].request.endpoint = "whatsapp_webhook"}

\* no earlier POST of the message lies within the dedupe window before i
FirstPostInWindow(i) ==
    \A h \in WhatsappPosts :
        h < i => wh_log[i].at - wh_log[h].at > DEDUPE_TTL_SECS

\* C11: two WhatsApp webhook POSTs carrying the same message id that arrive
\* within the 600 s dedupe window publish exactly one InboundMessage in
\* total (the first publishes it, the second publishes none), and both are
\* answered HTTP 200.
C11_AsStated ==
    \A i, j \in WhatsappPosts :
        ( /\ i < j
          /\ wh_log[j].at - wh_log[i].at <= DEDUPE_TTL_SECS
          /\ FirstPostInWindow(i) )
        => /\ Len(wh_log[i].published) + Len(wh_log[j].published) = 1
           /\ wh_log[i].status = HTTP_OK
           /\ wh_log[j].status = HTTP_OK

\* no earlier call for the key lies within the TTL before call i
FirstCallInWindow(i) ==
    \A h \in 1..(i - 1) :
        dd_log[h].key = dd_log[i].key
        => dd_log[i].at - dd_log[h].at > dd_log[i].ttl

\* C12: for every call C2 of dedupe_seen(k, ttl) made within ttl seconds of
\* a prior call C1 with the same key, C1 being the first call for k in that
\* window, C1 returned false and C2 returns true, whatever calls for other
\* keys are made in between.
C12_AsStated ==
    \A i, j \in 1..Len(dd_log) :
        ( /\ i < j
          /\ dd_log[i].key = dd_log[j].key
          /\ dd_log[j].at - dd_log[i].at <= dd_log[j].ttl
          /\ FirstCallInWindow(i) )
        => /\ ~dd_log[i].seen
           /\ dd_log[j].seen

(***************************************************************************)
(* Webhook signature failures, checked under GatewaySpec                   *)
(***************************************************************************)
\* the webhook channel a request belongs to, "" for any other endpoint
WebhookChannel(req) ==
    IF req.endpoint = "whatsapp_webhook" THEN "whatsapp"
    ELSE IF req.endpoint = "slack_inbound" THEN "slack"
    ELSE ""

\* the secret the signature of a webhook request is verified against
WebhookSecret(req) ==
    IF req.endpoint = "whatsapp_webhook" THEN gw_whatsapp_secret
    ELSE gw_slack_secret

\* the request's signature is not the one its webhook asks for: WhatsApp
\* wants "sha256=" and the HMAC of the body in either hex case; Slack wants
\* a signature header, a timestamp within 300 s of now, and "v0=" with the
\* HMAC of "v0:<ts>:<body>"
SignatureInvalid(req) ==
    IF req.endpoint = "whatsapp_webhook"
    THEN \/ req.signature.prefix # "sha256="
         \/ req.signature.digest.key # gw_whatsapp_secret.value
         \/ req.signature.digest.data # <<req.body>>
    ELSE \/ req.signature = NoSignature
         \/ req.ts - gw_now > SLACK_MAX_SKEW_SECS
         \/ gw_now - req.ts > SLACK_MAX_SKEW_SECS
         \/ req.signature.prefix # "v0="
         \/ req.signature.digest.key # gw_slack_secret.value
         \/ req.signature.digest.data # <<"v0:", ToString(req.ts), ":", req.body>>
         \/ req.signature.digest.hex # "lower"

\* the handler verified the signature of the request and the request failed
FailsSignatureVerification(req) ==
    /\ WebhookChannel(req) # ""
    /\ WebhookSecret(req).some
    /\ WebhookSecret(req).value # ""
    /\ SignatureInvalid(req)

\* C13: a WhatsApp or Slack webhook request that fails signature
\* verification (Slack: signature header absent, timestamp more than 300 s
\* from now, or digest mismatch) is answered HTTP 401, increases that
\* channel's error_count by exactly one, leaves the other channels' counts
\* alone, and publishes no InboundMessage.
C13_SignatureFailure ==
    [][ FailsSignatureVerification(gw_request')
        => /\ gw_status' = HTTP_UNAUTHORIZED
           /\ gw_errors' = [gw_errors EXCEPT
                               ![WebhookChannel(gw_request')] = @ + 1]
           /\ gw_published' = << >>
           /\ gw_dedupe' = gw_dedupe ]_vars

\* a Slack request signed with the right secret over a timestamp 301 s in
\* the future was answered 401 and counted once
C13_Witness ==
    /\ gw_request.endpoint = "slack_inbound"
    /\ gw_slack_secret = Some("s")
    /\ gw_request.ts = gw_now + SLACK_MAX_SKEW_SECS + 1
    /\ gw_request.signature.digest.key = "s"
    /\ gw_status = HTTP_UNAUTHORIZED
    /\ gw_errors["slack"] = 1
    /\ gw_published = << >>

(***************************************************************************)
(* Properties of the bus, checked under BusSpec, AgentBusSpec and          *)
(* FairInboundSpec                                                         *)
(***************************************************************************)
\* the messages of the general queue that are inbound messages, in order
InboundOf(log) == SelectSeq(log, LAMBDA e : e.kind = "InboundMessage")

\* the kinds of the events on the general queue
KindsOn(log) == {log[i].kind : i \in 1..Len(log)}

\* C14: MessageBus.publish of an InboundMessage puts the event on the
\* general queue and its message on the inbound queue; publish of an
\* OutboundMessage or a SystemLog puts the event on the general queue only
\* and leaves the inbound queue unchanged.
C14_PublishFrame ==
    [][ (bus'.tx.log # bus.tx.log \/ bus'.inbound_tx.log # bus.inbound_tx.log)
        => LET event == bus'.tx.log[Len(bus'.tx.log)]
           IN  /\ bus'.tx.log = Append(bus.tx.log, event)
               /\ IF event.kind = "InboundMessage"
                  THEN bus'.inbound_tx.log =
                           Append(bus.inbound_tx.log, event.message)
                  ELSE bus'.inbound_tx.log = bus.inbound_tx.log ]_vars

\* one event of each kind was published and the inbound queue holds the
\* one inbound message
C14_Witness ==
    /\ KindsOn(bus.tx.log) = {"InboundMessage", "OutboundMessage", "SystemLog"}
    /\ Len(bus.tx.log) = 3
    /\ Len(bus.inbound_tx.log) = 1
    /\ bus.inbound_tx.log[1] = InboundOf(bus.tx.log)[1].message

\* what a receiver was handed, in order
ValuesOf(rx) ==
    LET oks == SelectSeq(rx.got, LAMBDA g : g.result = "Ok")
    IN  [i \in 1..Len(oks) |-> oks[i].value]

NeverLagged(rx) == \A i \in 1..Len(rx.got) : rx.got[i].result # "Lagged"

\* a receiver that never lagged was handed every event sent since it
\* subscribed up to where it stands, in send order
KeepsUp(chan, rx) ==
    (rx.state # "new" /\ NeverLagged(rx))
    => /\ rx.pos <= Len(chan.log)
       /\ Len(ValuesOf(rx)) <= rx.pos
       /\ ValuesOf(rx) = SubSeq(chan.log, rx.pos - Len(ValuesOf(rx)) + 1, rx.pos)

\* C15: the subscribers are independent and never block the publishers: a
\* publish is possible whatever the receivers have read, a pass of one
\* subscriber's loop changes neither the queue nor another subscriber, and
\* a subscriber that never lagged has missed and reordered nothing, however
\* far another subscriber lags.
C15_Independent ==
    /\ [](\A s \in GeneralSubscribers : KeepsUp(bus.tx, bus_rx[s]))
    /\ []((~bus.tx.closed /\ Published(bus) < MaxPublishes)
            => \A src \in EventSources : ENABLED Publish(src))
    /\ [][ \A s \in GeneralSubscribers :
             (bus_rx'[s].got # bus_rx[s].got)
             => /\ bus' = bus
                /\ \A t \in Subscribers \ {s} : bus_rx'[t] = bus_rx[t] ]_vars

\* the /ws/events handler lagged while the monitor was handed the three
\* events published, without lagging
C15_Witness ==
    /\ ~NeverLagged(bus_rx["ws_events"])
    /\ NeverLagged(bus_rx["monitor"])
    /\ Len(bus.tx.log) = 3
    /\ ValuesOf(bus_rx["monitor"]) = bus.tx.log

\* the number a sender gave to its message
NumberOf(message) ==
    CHOOSE n \in 1..(2 * MaxPublishes + 2) : <<"n", n>> \in message.metadata

\* where an event stands on the general queue
PlaceOf(event) == CHOOSE i \in 1..Len(bus.tx.log) : bus.tx.log[i] = event

\* the replies of the agent loop the monitor was handed
RepliesSeen ==
    SelectSeq(ValuesOf(bus_rx["monitor"]),
              LAMBDA e : e.kind = "OutboundMessage" /\ e.message.sender_id = "agent")

\* C16: a subscriber that never lagged observes the events in the order
\* they were published; the events the agent loop published on one session
\* are observed in the order it published them; and the agent loop is
\* handed the inbound messages of any one publisher in that publisher's
\* order.
C16_PublishOrder ==
    /\ NeverLagged(bus_rx["monitor"])
       => LET seen == ValuesOf(bus_rx["monitor"])
          IN  /\ \A i, j \in 1..Len(seen) :
                     i < j => PlaceOf(seen[i]) < PlaceOf(seen[j])
              /\ \A i, j \in 1..Len(RepliesSeen) :
                     ( /\ i < j
                       /\ RepliesSeen[i].message.session_key
                              = RepliesSeen[j].message.session_key )
                     => NumberOf(RepliesSeen[i].message)
                            < NumberOf(RepliesSeen[j].message)
    /\ LET handed == ValuesOf(bus_rx["agent_loop"])
       IN  \A i, j \in 1..Len(handed) :
               (i < j /\ handed[i].sender_id = handed[j].sender_id)
               => NumberOf(handed[i]) < NumberOf(handed[j])

\* the monitor, never lagging, was handed two replies of the agent loop on
\* one session, and the agent loop two messages of one publisher
C16_Witness ==
    /\ NeverLagged(bus_rx["monitor"])
    /\ \E i, j \in 1..Len(RepliesSeen) :
           /\ i < j
           /\ RepliesSeen[i].message.session_key
                  = RepliesSeen[j].message.session_key
    /\ \E i, j \in 1..Len(ValuesOf(bus_rx["agent_loop"])) :
           /\ i < j
           /\ ValuesOf(bus_rx["agent_loop"])[i].sender_id
                  = ValuesOf(bus_rx["agent_loop"])[j].sender_id

\* what recv returned last to the agent loop
LastResult ==
    IF bus_rx["agent_loop"].got = << >> THEN "none"
    ELSE bus_rx["agent_loop"].got[Len(bus_rx["agent_loop"].got)].result

AgentStepped == bus_rx'["agent_loop"].got # bus_rx["agent_loop"].got

\* C17: when recv returns Lagged(n) the agent loop keeps running, standing
\* at the oldest message still in the queue: it goes on to process the
\* messages still queued and the later ones, each in turn; when recv
\* returns Closed the loop terminates, and it terminates on nothing else.
C17_LagAndClose ==
    /\ [][ AgentStepped
           => /\ LastResult' = "Lagged"
                 => /\ bus_rx'["agent_loop"].state = "running"
                    /\ bus_rx'["agent_loop"].pos = overwritten(bus.inbound_tx)
                    /\ bus_rx'["agent_loop"].pos < Len(bus.inbound_tx.log)
              /\ LastResult' = "Ok"
                 => /\ bus_rx'["agent_loop"].state = "running"
                    /\ bus_rx'["agent_loop"].got[Len(bus_rx'["agent_loop"].got)].value
                           = bus.inbound_tx.log[bus_rx["agent_loop"].pos + 1]
              /\ LastResult' = "Closed" <=> bus_rx'["agent_loop"].state = "stopped"
         ]_vars
    /\ (LastResult = "Lagged") ~> (LastResult = "Ok")
    /\ <>[](\/ bus_rx["agent_loop"].state = "stopped"
            \/ bus_rx["agent_loop"].pos = Len(bus.inbound_tx.log))
    /\ bus.inbound_tx.closed ~> (bus_rx["agent_loop"].state = "stopped")

\* the agent loop lagged, then processed a message, and stopped on Closed
C17_Witness ==
    /\ bus_rx["agent_loop"].state = "stopped"
    /\ LastResult = "Closed"
    /\ \E i, j \in 1..Len(bus_rx["agent_loop"].got) :
           /\ i < j
           /\ bus_rx["agent_loop"].got[i].result = "Lagged"
           /\ bus_rx["agent_loop"].got[j].result = "Ok"

(***************************************************************************)
(* Properties of the providers, checked under FailoverSpec and             *)
(* ReliableSpec                                                            *)
(***************************************************************************)
\* the text of the first k failures of the call, in list order
RECURSIVE FailuresJoined(_)
FailuresJoined(k) ==
    IF k = 0 THEN << >>
    ELSE (IF k = 1 THEN << >> ELSE FailuresJoined(k - 1) \o <<" | ">>)
         \o <<failover.providers[k].name, ": ">>
         \o display(failover.calls[k].outcome.error)

EveryProviderFailed ==
    /\ failover.providers # << >>
    /\ Len(failover.calls) = Len(failover.providers)
    /\ \A i \in 1..Len(failover.calls) : ~failover.calls[i].outcome.ok

IsAggregatedError(result) ==
    /\ ~result.ok
    /\ result.error.message # << >>
    /\ result.error.message[1] = "all providers failed; "

\* C18: FailoverProvider.chat calls its providers strictly in list order,
\* each with the caller's options overlaid by that provider's model
\* override; it stops at the first provider that succeeds, returning its
\* response and calling no later provider; it returns the aggregated error
\* "all providers failed; <name>: <err> | ..." with every failure in list
\* order when, and only when, every provider failed.
C18_FailoverOrder ==
    /\ [](/\ Len(failover.calls) <= Len(failover.providers)
          /\ \A i \in 1..Len(failover.calls) :
               LET entry == failover.providers[i]
                   call == failover.calls[i]
               IN  /\ call.name = entry.name
                   /\ call.options.model =
                        (IF entry.model_override.some
                         THEN entry.model_override.value
                         ELSE CallerOptions.model)
                   /\ call.options.max_tokens = CallerOptions.max_tokens
                   /\ call.options.temperature = CallerOptions.temperature
                   /\ i < Len(failover.calls) => ~call.outcome.ok
          /\ failover.pc = "done"
             => /\ failover.result.ok
                   => /\ failover.calls # << >>
                      /\ failover.result
                           = failover.calls[Len(failover.calls)].outcome
                /\ IsAggregatedError(failover.result) <=> EveryProviderFailed
                /\ EveryProviderFailed
                   => failover.result.error =
                        ApiError(<<"all providers failed; ">>
                                 \o FailuresJoined(Len(failover.calls))))
    /\ [][failover.pc = "done" => failover' = failover]_vars

\* two providers, the second with a model override, both failed and the
\* aggregated error was returned
C18_Witness ==
    /\ failover.pc = "done"
    /\ Len(failover.providers) = 2
    /\ failover.providers[2].model_override.some
    /\ EveryProviderFailed
    /\ IsAggregatedError(failover.result)

\* the markers of a transient API error
TransientMarkers ==
    {"429", "rate limit", "too many requests", "timeout", "temporar",
     "unavailable", "503"}

\* a network failure, or an API error whose message holds a transient
\* marker in any case
Transient(err) ==
    \/ err.kind = "NetworkError"
    \/ /\ err.kind = "ApiError"
       /\ \E i \in 1..Len(err.message) :
              to_lowercase(err.message[i]) \in TransientMarkers

\* C19: ReliableProvider.chat invokes the inner provider at most
\* max_retries + 1 times per call; every invocation but the last was
\* answered by a retryable error (a network failure, or an API error whose
\* message holds a transient marker); a configuration error or any other
\* non-retryable error is returned after exactly one attempt.
C19_BoundedRetry ==
    /\ [](/\ Len(reliable.calls) <= reliable.max_retries + 1
          /\ \A i \in 1..Len(reliable.calls) :
               i < Len(reliable.calls)
               => /\ ~reliable.calls[i].ok
                  /\ Transient(reliable.calls[i].error)
          /\ \A i \in 1..Len(reliable.calls) :
               (~reliable.calls[i].ok /\ ~Transient(reliable.calls[i].error))
               => /\ i = Len(reliable.calls)
                  /\ reliable.pc = "done"
                  /\ reliable.result = reliable.calls[i]
          /\ (reliable.calls # << >> /\ ~reliable.calls[1].ok
                /\ ~Transient(reliable.calls[1].error))
             => Len(reliable.calls) = 1
          /\ reliable.pc = "done"
             => reliable.result = reliable.calls[Len(reliable.calls)])
    /\ [][reliable.pc = "done" => reliable' = reliable]_vars

\* with two retries configured, three transient failures in a row used up
\* every attempt
C19_Witness ==
    /\ reliable.pc = "done"
    /\ reliable.max_retries = 2
    /\ Len(reliable.calls) = 3
    /\ ~reliable.result.ok
    /\ Transient(reliable.result.error)
    /\ reliable.calls[1].error.kind = "ApiError"

(***************************************************************************)
(* Properties of the outbound adapters, checked under AdapterSpec          *)
(***************************************************************************)
\* the attempt was answered 2xx, and for Slack with ok = true
Answered2xx(resp) ==
    /\ resp.sent
    /\ resp.status \in 200..299
    /\ adapter.channel = "slack" => resp.ok

RECURSIVE Doubled(_)
Doubled(i) == IF i = 1 THEN 1000 ELSE 2 * Doubled(i - 1)

\* C20: send_outbound_with_retry makes exactly 3 HTTP attempts for a
\* message that keeps failing and then reports failure; it stops at the
\* first attempt answered 2xx (Slack: 2xx and ok = true), making no further
\* attempt; every failed attempt is followed by a wait, of 1 s, 2 s and 4 s
\* in turn, each plus a jitter within [0, retry_jitter_ms].
C20_ThreeAttempts ==
    /\ [](/\ Len(adapter.attempts) <= 3
          /\ \A i \in 1..Len(adapter.attempts) :
               i < Len(adapter.attempts) => ~Answered2xx(adapter.attempts[i])
          /\ (adapter.pc = "done" /\ adapter.attempts # << >>)
             => IF Answered2xx(adapter.attempts[Len(adapter.attempts)])
                THEN adapter.result = "sent"
                ELSE /\ adapter.result = "failed"
                     /\ Len(adapter.attempts) = 3
          /\ adapter.result = "sent"
             => /\ adapter.attempts # << >>
                /\ Answered2xx(adapter.attempts[Len(adapter.attempts)])
          /\ Len(adapter.sleeps) =
               Cardinality({i \in 1..Len(adapter.attempts) :
                               ~Answered2xx(adapter.attempts[i])})
          /\ \A i \in 1..Len(adapter.sleeps) :
               /\ adapter.sleeps[i].delay_ms = Doubled(i)
               /\ adapter.sleeps[i].jitter_ms \in 0..adapter.retry_jitter_ms)
    /\ [][adapter.pc = "done" => adapter' = adapter]_vars

\* the Slack adapter made three attempts, one of them answered 200 with
\* ok = false, waited three times with a jitter, and reported failure
C20_Witness ==
    /\ adapter.channel = "slack"
    /\ adapter.pc = "done"
    /\ adapter.result = "failed"
    /\ Len(adapter.attempts) = 3
    /\ adapter.attempts[2] = HttpResponse(TRUE, 200, FALSE)
    /\ Len(adapter.sleeps) = 3
    /\ adapter.sleeps[3].delay_ms = 4000
    /\ adapter.sleeps[3].jitter_ms > 0

(***************************************************************************)
(* Properties of the cron service, checked under CronSpec                  *)
(***************************************************************************)
StoredJobs == {cron.jobs[i] : i \in 1..Len(cron.jobs)}

\* C21: after any sequence of add_job, enable_job, remove_job and tick,
\* every stored job that is disabled has no next run time
C21_DisabledHasNoNextRun ==
    \A job \in StoredJobs : ~job.enabled => job.state.next_run_at_ms = NoMs

\* a job that repeats was disabled by the last call
C21_Witness ==
    /\ cron.last_call = "enable_job"
    /\ \E job \in StoredJobs : ~job.enabled /\ job.schedule = Every(1)

\* the jobs of a store that are enabled and whose next run is at or before
\* an instant, in the order of the store
DueJobs(jobs, instant) ==
    SelectSeq(jobs, LAMBDA j :
        /\ j.enabled
        /\ j.state.next_run_at_ms.some
        /\ j.state.next_run_at_ms.value <= instant)

\* the synthetic message of a job
SyntheticMessage(job) ==
    [channel |-> "cron",
     session_key |-> <<"cron", ":", IF job.payload.channel.some
                                   THEN job.payload.channel.value
                                   ELSE job.id>>,
     sender_id |-> "system",
     role |-> "user",
     content |-> job.payload.message,
     metadata |-> {<<"cron_job_id", job.id>>}]

SyntheticMessages(jobs, instant) ==
    [k \in 1..Len(DueJobs(jobs, instant)) |->
        SyntheticMessage(DueJobs(jobs, instant)[k])]

\* C22: a tick publishes exactly one synthetic InboundMessage (channel
\* "cron", session key "cron:<channel or job id>", role user, sender
\* "system", metadata cron_job_id) for every job that is enabled and due,
\* in the order of the store, and none for any other job
C22_TickPublishesDueJobs ==
    [][cron'.last_call = "tick" =>
         /\ bus'.inbound_tx.log =
                bus.inbound_tx.log \o SyntheticMessages(cron.jobs, cron.now_ms)
         /\ bus'.tx.log =
                bus.tx.log \o [k \in 1..Len(SyntheticMessages(cron.jobs, cron.now_ms)) |->
                                  Event("InboundMessage",
                                        SyntheticMessages(cron.jobs, cron.now_ms)[k])]
    ]_vars

\* a tick fired one job of the store and passed over another
C22_Witness ==
    /\ cron.last_call = "tick"
    /\ \E job \in StoredJobs :
           /\ job.state.last_run_at_ms = SomeMs(cron.now_ms)
           /\ \E i \in 1..Len(bus.inbound_tx.log) :
                  bus.inbound_tx.log[i].metadata = {<<"cron_job_id", job.id>>}
    /\ \E job \in StoredJobs : job.state.last_run_at_ms = NoMs


(***************************************************************************)
(* Properties of the published messages, checked under PublishSpec         *)
(***************************************************************************)
LowercaseLetters ==
    {"a", "b", "c", "d", "e", "f", "g", "h", "i", "j", "k", "l", "m",
     "n", "o", "p", "q", "r", "s", "t", "u", "v", "w", "x", "y", "z"}
Whitespace == {" ", "\t", "\n", "\r"}

\* a string matches ^[a-z_]+:[^\s]*$
MatchesSessionKeyForm(cs) ==
    \E i \in 2..Len(cs) :
        /\ cs[i] = ":"
        /\ \A k \in 1..(i - 1) : cs[k] \in LowercaseLetters \cup {"_"}
        /\ \A k \in (i + 1)..Len(cs) : cs[k] \notin Whitespace

\* C23: every Message published on the bus, from the gateway's endpoints,
\* the adapters, cron, heartbeat, a tool, the CLI or the agent loop, has a
\* session_key of the form ^[a-z_]+:[^\s]*$
C23_AsStated ==
    \A i \in 1..Len(bus.tx.log) :
        MatchesSessionKeyForm(chars(bus.tx.log[i].message.session_key))


(***************************************************************************)
(* Properties of the locks, checked under LockSpec                         *)
(***************************************************************************)
\* C24: no task holds a lock (the session map, the dedupe cache, the
\* channel stats, the tool registry's maps, the cron store) while an HTTP
\* request or an LLM call it made is in progress
C24_NoLockAcrossCalls ==
    \A t \in TaskNames : tasks[t].awaiting # "none" => tasks[t].held = {}

\* the agent loop awaits the HTTP request of a tool while the webhook
\* handler holds the dedupe cache and the cron loop holds its store
C24_Witness ==
    /\ tasks["agent_loop"].awaiting = "http"
    /\ \E h \in tasks["webhook"].held : h.lock = "dedupe"
    /\ \E h \in tasks["cron_loop"].held : h.lock = "store"


(***************************************************************************)
(* Properties of the allowed tools, checked under PolicySpec               *)
(***************************************************************************)
\* the installed skills that are approved, and those that are not
ApprovedInstalled ==
    {policy.skills[i] : i \in {k \in 1..Len(policy.skills) :
                                  policy.skills[k].name \in policy.approved}}
UnapprovedInstalled ==
    {policy.skills[i] : i \in {k \in 1..Len(policy.skills) :
                                  policy.skills[k].name \notin policy.approved}}

DeclaredBy(skill_set) == UNION {s.permissions.tools : s \in skill_set}

\* an approved skill without a permissions block or with an empty tools list
SomeApprovedUnrestricted ==
    \E s \in ApprovedInstalled : ~s.permissions.present \/ s.permissions.tools = {}

Resolved == policy.stage # "inputs" /\ policy.by = "get_allowed_tools"

\* the three rows of the table
PolicyTable ==
    IF SomeApprovedUnrestricted THEN policy.allowed = {"*"}
    ELSE IF ApprovedInstalled = {}
    THEN policy.allowed = {"read_file", "list_dir", "web_fetch", "web_search",
                           "sessions_list", "sessions_history",
                           "channel_health", "datetime_now"}
    ELSE policy.allowed = DeclaredBy(ApprovedInstalled)

\* the tools that only skills without approval declare
OnlyUnapproved == DeclaredBy(UnapprovedInstalled) \ DeclaredBy(ApprovedInstalled)

Grants(list, t) == t \in list \/ "*" \in list

\* C26: when no skill is approved the list get_allowed_tools returns grants
\* no tools, and the turn runs with 0 tool definitions
C26_AsStated ==
    (/\ policy.stage = "listed"
     /\ policy.by = "get_allowed_tools"
     /\ policy.approved = {})
        => /\ \A t \in ToolNames : ~Grants(policy.allowed, t)
           /\ policy.defs = {}

\* C27: list_definitions_for_permissions(A) holds the definition of a
\* registered tool exactly when is_tool_allowed(name, A): nothing for the
\* empty list, every tool for a list with "*", the tools named otherwise
C27_DefinitionsMatchAllowed ==
    policy.stage = "listed" =>
        /\ \A t \in policy.registered :
               t \in policy.defs <=> is_tool_allowed(t, policy.allowed)
        /\ policy.defs \subseteq policy.registered
        /\ policy.allowed = {} => policy.defs = {}
        /\ "*" \in policy.allowed => policy.defs = policy.registered
        /\ (policy.allowed # {} /\ "*" \notin policy.allowed)
               => policy.defs = policy.registered \cap policy.allowed

\* the empty list was passed to a registry that holds tools
C27_Witness ==
    /\ policy.stage = "listed"
    /\ policy.allowed = {}
    /\ policy.registered # {}


(***************************************************************************)
(* Properties of is_private_ip, checked under ProbeSpec                    *)
(***************************************************************************)
\* the ranges by their first and last address
InListedV4Range(o) ==
    \/ o[1] = 127
    \/ o[1] = 10
    \/ o[1] = 172 /\ o[2] \in 16..31
    \/ o[1] = 192 /\ o[2] = 168
    \/ o[1] = 169 /\ o[2] = 254
    \/ o[1] = 100 /\ o[2] \in 64..127

InListedV6Range(s) ==
    \/ s = <<0, 0, 0, 0, 0, 0, 0, 1>>
    \/ s = <<0, 0, 0, 0, 0, 0, 0, 0>>
    \/ s[1] \in 64512..65023
    \/ s[1] \in 65152..65215

InListedRange(ip) ==
    IF ip.family = "v4" THEN InListedV4Range(ip.parts)
    ELSE InListedV6Range(ip.parts)

\* C28: is_private_ip returns true for every IPv4 address in 127/8, 10/8,
\* 172.16/12, 192.168/16, 169.254/16, 100.64/10 and for the IPv6 addresses
\* ::1, :: and every address in fc00::/7 and fe80::/10
C28_AsStated ==
    (ip_check.checked /\ InListedRange(ip_check.ip)) => ip_check.private


(***************************************************************************)
(* Properties of validate_path, checked under SandboxSpec                  *)
(***************************************************************************)
\* where a use of a path lands: every symbolic link followed, also one
\* whose target is missing, every ".." resolved, a missing component taken
\* as the name of what is created
RECURSIVE lands_from(_, _, _, _)
lands_from(fs, done, rest, hops) ==
    IF rest = << >> THEN done
    ELSE LET c == Head(rest)
             next == Append(done, c)
         IN  IF c = ".."
             THEN lands_from(fs, IF done = << >> THEN << >> ELSE all_but_last(done),
                             Tail(rest), hops)
             ELSE IF next \in DOMAIN fs /\ fs[next].kind = "symlink" /\ hops > 0
             THEN lands_from(fs, << >>, fs[next].target \o Tail(rest), hops - 1)
             ELSE lands_from(fs, next, Tail(rest), hops)

AbsoluteRequest ==
    IF sandbox.requested.absolute THEN sandbox.requested.parts
    ELSE sandbox.workspace \o sandbox.requested.parts

CanonicalWorkspace == lands_from(sandbox.fs, << >>, sandbox.workspace, MaxSymlinkHops)

ResolvesOutside ==
    ~starts_with(lands_from(sandbox.fs, << >>, AbsoluteRequest, MaxSymlinkHops),
                 CanonicalWorkspace)

\* C29: a path validate_path returns starts with the canonical workspace,
\* for relative and absolute requests, existing and missing targets,
\* symbolic links and "..", and every request that resolves outside the
\* workspace returns an error
C29_AsStated ==
    sandbox.validated =>
        /\ sandbox.result.ok => starts_with(sandbox.result.path, CanonicalWorkspace)
        /\ ResolvesOutside => ~sandbox.result.ok


(***************************************************************************)
(* Properties of the size of the dedupe cache, checked under FillSpec      *)
(***************************************************************************)
KeysOf(cache) == {e[1] : e \in cache.entries}

\* the insertions a cache remembers, from the k-th on
OrderFrom(order, k) == SubSeq(order, k, Len(order))

C31_AsStated ==
    /\ \A i \in 1..Len(reliable.sleeps) : reliable.sleeps[i] <= 2000
    /\ \A i \in 1..(Len(reliable.sleeps) - 1) :
           reliable.sleeps[i + 1] =
               IF 2 * reliable.sleeps[i] <= 2000 THEN 2 * reliable.sleeps[i]
               ELSE 2000

(***************************************************************************)
(* Properties of the adapters' receive loop, checked under OutflowSpec     *)
(***************************************************************************)
\* the events the receive loop has passed so far
PassedEvents ==
    {outflow.tx.log[i] : i \in (overwritten(outflow.tx) + 1)..outflow.pos}

\* C32: at every moment the sends of one adapter in flight, those waiting
\* before a retry included, are at most max_inflight, each holding one of
\* the permits; a message whose session key has another prefix never takes
\* a permit
C32_BoundedInflight ==
    /\ Cardinality(InFlight(outflow)) <= outflow.max_inflight
    /\ outflow.permits + Cardinality(InFlight(outflow)) = outflow.max_inflight
    /\ \A k \in outflow.granted : has_prefix(k, outflow.channel)
    /\ outflow.pc = "acquire" => has_prefix(outflow.cur, outflow.channel)

\* with max_inflight = 1 one send waits before a retry and holds the only
\* permit, the next message of the adapter waits for it, and a message of
\* another prefix was passed over without one
C32_Witness ==
    /\ outflow.max_inflight = 1
    /\ Cardinality(InFlight(outflow)) = 1
    /\ \E i \in SendSlots : outflow.sends[i].phase = "sleep"
    /\ outflow.pc = "acquire"
    /\ outflow.permits = 0
    /\ \E e \in PassedEvents :
           /\ e.kind = "OutboundMessage"
           /\ ~has_prefix(e.message.session_key, outflow.channel)

(***************************************************************************)
(* Properties of a fired job, checked under StoredCronSpec                 *)
(***************************************************************************)
\* the positions of the jobs a tick at the present instant fires, the ids
\* it removes, and the positions of the jobs it leaves in the store
DuePositions == {i \in 1..Len(cron.jobs) : is_due(cron.jobs[i], cron.now_ms)}
RemovedIds == {cron.jobs[i].id : i \in {k \in DuePositions : cron.jobs[k].delete_after_run}}
KeptPositions ==
    SelectSeq([i \in 1..Len(cron.jobs) |-> i],
              LAMBDA i : cron.jobs[i].id \notin RemovedIds)

\* the next run the claim gives a job fired at now_ms
NextRunOfFired(job, now_ms) ==
    IF job.schedule.kind = "at" THEN NoMs
    ELSE IF job.schedule.kind = "every"
    THEN SomeMs(now_ms + job.schedule.every_ms.value)
    ELSE NoMs

\* C33: a tick at the instant now publishes one message for each due job
\* and sets the job's next run to none for "at" and to now + every_ms for
\* "every"; a fired job marked delete_after_run is gone from the store
\* after the tick; the jobs that were not due are left as they were; and an
\* "at" job that has run is never due again
C33_FiredOnce ==
    /\ [][cron'.last_call = "tick" =>
            /\ Len(bus'.inbound_tx.log) =
                   Len(bus.inbound_tx.log) + Cardinality(DuePositions)
            /\ \A i \in DuePositions :
                   cron.jobs[i].delete_after_run =>
                       \A k \in 1..Len(cron'.jobs) : cron'.jobs[k].id # cron.jobs[i].id
            /\ Len(cron'.jobs) = Len(KeptPositions)
            /\ \A k \in 1..Len(KeptPositions) :
                   LET before == cron.jobs[KeptPositions[k]]
                       after == cron'.jobs[k]
                   IN  IF KeptPositions[k] \in DuePositions
                       THEN /\ after.state.next_run_at_ms =
                                   NextRunOfFired(before, cron.now_ms)
                            /\ after.state.last_run_at_ms = SomeMs(cron.now_ms)
                            /\ ~is_due(after, cron.now_ms)
                       ELSE after = before]_vars
    /\ [](\A i \in 1..Len(cron.jobs) :
              (cron.jobs[i].schedule.kind = "at"
                   /\ cron.jobs[i].state.last_run_at_ms.some)
                  => ~cron.jobs[i].state.next_run_at_ms.some)

\* a tick has fired an "every" job, which stays with its next run one
\* period later, after a job marked delete_after_run was fired and removed
C33_Witness ==
    /\ cron.last_call = "tick"
    /\ cron.now_ms = 2
    /\ Len(cron.jobs) = 1
    /\ cron.jobs[1].schedule = Every(1)
    /\ cron.jobs[1].state.last_run_at_ms = SomeMs(2)
    /\ cron.jobs[1].state.next_run_at_ms = SomeMs(3)
    /\ Len(bus.inbound_tx.log) = 2

(***************************************************************************)
(* Properties of the summarization, checked under Spec                     *)
(***************************************************************************)
\* the session of the turn as the store holds it
TurnSession == sessions[msg.session_key]

\* C34: every attempt of the summarization call is made after the final
\* OutboundMessage was published; when the call succeeds the summary is
\* set first, the session is marked as summarized next and the history is
\* trimmed to its last ten messages last; when the call fails the summary,
\* the mark and the history are left as they were, nothing more is
\* published and the turn ends
C34_SummaryAdvisory ==
    [][/\ (pc = "summarize_llm" /\ llm_attempts' # llm_attempts) =>
              /\ bus_events # << >>
              /\ bus_events[Len(bus_events)] = FinalOutbound
              /\ bus_events' = bus_events
       /\ (pc = "summarize_llm" /\ pc' = "summary_set") =>
              /\ TurnSession'.summary = SummaryText
              /\ TurnSession'.history = TurnSession.history
              /\ last_summarized' = last_summarized
       /\ (pc = "summary_set" /\ pc' # pc) =>
              /\ pc' = "summary_marked"
              /\ last_summarized'[msg.session_key] = now
              /\ sessions' = sessions
       /\ (pc = "summary_marked" /\ pc' # pc) =>
              /\ pc' = "done"
              /\ TurnSession'.summary = SummaryText
              /\ Len(TurnSession'.history) <= SUMMARY_KEEP
              /\ \E cut \in 0..Len(TurnSession.history) :
                     TurnSession'.history =
                         SubSeq(TurnSession.history, cut + 1,
                                Len(TurnSession.history))
              /\ last_summarized' = last_summarized
       /\ (pc = "summarize_llm" /\ pc' = "done") =>
              /\ llm_failed' = "summary"
              /\ sessions' = sessions
              /\ last_summarized' = last_summarized
              /\ bus_events' = bus_events]_vars

\* a turn ended after a summary was stored, the session marked and a
\* history of thirty messages trimmed to ten
C34_Witness ==
    /\ pc = "done"
    /\ TurnSession.summary = SummaryText
    /\ last_summarized[msg.session_key] = now
    /\ Len(TurnSession.history) = SUMMARY_KEEP
    /\ bus_events[Len(bus_events)] = FinalOutbound

(***************************************************************************)
(* Properties of the rolling counter, checked under RollingSpec            *)
(***************************************************************************)
\* the observations whose minute lies in the `taken` minutes that end at
\* the minute of the clock
ObservedWithin(taken) ==
    {i \in 1..Len(rolling.observed) :
         /\ minute_index(rolling.observed[i]) <= rolling.clock.minute
         /\ minute_index(rolling.observed[i]) > rolling.clock.minute - taken}

\* the minutes that passed between the counter's last call and the clock
ElapsedMinutes == rolling.clock.minute - rolling.counter.last_minute

\* the buckets the cursor enters when it advances by n
Entered(n) ==
    {(rolling.counter.cursor + k) % ROLLING_WINDOW_MINUTES : k \in 1..n}

\* C35: after any sequence of observe calls with non-decreasing timestamps
\* sum_recent_minutes(now, 60) is the number of observations whose minute
\* lies in the 60 minutes ending at now's minute; a call moves the cursor
\* one bucket per elapsed minute and clears each bucket it enters, and a
\* gap of 60 minutes or more resets every bucket
C35_AsStated ==
    /\ [](sum_recent_minutes(rolling.counter, epoch_ms(rolling.clock),
                             ROLLING_WINDOW_MINUTES).sum
              = Cardinality(ObservedWithin(ROLLING_WINDOW_MINUTES)))
    /\ [][(rolling'.last_call = "sum" /\ rolling.counter.last_minute # 0) =>
             IF ElapsedMinutes >= ROLLING_WINDOW_MINUTES
             THEN \A b \in 0..(ROLLING_WINDOW_MINUTES - 1) :
                      rolling'.counter.buckets[b] = 0
             ELSE /\ rolling'.counter.cursor =
                         (rolling.counter.cursor + ElapsedMinutes)
                             % ROLLING_WINDOW_MINUTES
                  /\ \A b \in 0..(ROLLING_WINDOW_MINUTES - 1) :
                         rolling'.counter.buckets[b] =
                             IF b \in Entered(ElapsedMinutes) THEN 0
                             ELSE rolling.counter.buckets[b]]_vars

(***************************************************************************)
(* Properties of the tool audit, checked under Spec                        *)
(***************************************************************************)
\* the tool_execution records of the audit log that carry success = true
\* for a tool
SuccessfulExecutions(tool) ==
    {i \in 1..Len(audit) :
         /\ audit[i].event_type = "tool_execution"
         /\ audit[i].tool = tool
         /\ audit[i].success}

\* C36: a tool_execution audit record carries success = true only if the
\* tool's execute was invoked for the call, and the audit log counts as
\* many successes of a tool as the tool's metrics do
C36_AsStated ==
    /\ \A i \in 1..Len(audit) :
           (audit[i].event_type = "tool_execution" /\ audit[i].success)
               => \E k \in 1..Len(executed) : executed[k].name = audit[i].tool
    /\ \A tool \in DOMAIN metrics :
           metrics[tool].success_count = Cardinality(SuccessfulExecutions(tool))

(***************************************************************************)
(* Properties of the cron loop at start-up, checked under StartupSpec      *)
(***************************************************************************)
\* the agent loop holds a receiver of the inbound queue, so a message sent
\* on that queue is enqueued for it
AgentSubscribed == bus_rx["agent_loop"].state = "running"

\* C37: in every interleaving of the cron loop's start and the agent
\* loop's subscription, a job that a tick records with last_status "ok"
\* had its message enqueued for the agent loop, and a job it records with
\* "error" did not
C37_AsStated ==
    [][cron'.last_call = "tick" =>
          \A k \in 1..Len(KeptPositions) :
              KeptPositions[k] \in DuePositions =>
                  /\ cron'.jobs[k].state.last_status = Some("ok") => AgentSubscribed
                  /\ cron'.jobs[k].state.last_status = Some("error") => ~AgentSubscribed]_vars

(***************************************************************************)
(* Properties of the ids of POST /api/message, checked under ApiSpec       *)
(***************************************************************************)
\* C38: the id in the {id, status: "accepted"} response of POST
\* /api/message is the id of the InboundMessage that was published
C38_AsStated ==
    \A i \in 1..Len(api.answers) :
        api.answers[i].status = HTTP_OK =>
            api.answers[i].body.id = uuid_to_string(api.answers[i].published.id)

(***************************************************************************)
(* Properties of the job ids, checked under CronSpec                       *)
(***************************************************************************)
\* C39: after any sequence of add_job calls, several within the same
\* millisecond included, the stored jobs have pairwise distinct ids, so
\* remove_job and enable_job with an id touch one job at most
C39_AsStated ==
    /\ [](\A i, k \in 1..Len(cron.jobs) :
              i # k => cron.jobs[i].id # cron.jobs[k].id)
    /\ [][cron'.last_call = "remove_job" =>
              Len(cron'.jobs) >= Len(cron.jobs) - 1]_vars

(***************************************************************************)
(* Properties of a closed bus, checked under FairOutflowSpec               *)
(***************************************************************************)
\* the receive loop stands at recv or in the sleep that leads back to it
Polling == outflow.pc \in {"recv", "sleep"}

====
